---- MODULE Spec2Model ----
(***************************************************************************)
(* Task-to-action execution framework of shopee-agent: the Task Store      *)
(* tables (agent_tasks, agent_runs, agent_artifacts), the Worker loop, the *)
(* per-shop browser pool, the BaseAction.execute template and the three    *)
(* registered actions.                                                     *)
(*                                                                         *)
(* Python values are rendered as follows.  Optional[T] is a sequence of    *)
(* length 0 (None) or 1.  A str is a sequence of tokens, so that an        *)
(* f-string is a concatenation.  A dict is a record; "k in d" is           *)
(* k \in DOMAIN d.  Calls into Selenium, the ZiNiao service and Supabase   *)
(* are the environment: each returns one of the results its wrapper in the *)
(* source can produce, and a call that can raise does so only while the    *)
(* fault budget MaxFaults lasts.                                           *)
(***************************************************************************)
EXTENDS Integers, Sequences, FiniteSets, TLC

VARIABLES tasks, runs, artifacts, provider, wk, ex, now, utc, faults

vars == <<tasks, runs, artifacts, provider, wk, ex, now, utc, faults>>

(***************************************************************************)
(* Bounds of the model.                                                    *)
(***************************************************************************)
MaxTasks == 3
MaxFaults == 1
MaxClock == 2
MaxRows == 3
MaxBacklog == 2
ExecFaults == 2

None == <<>>
Some(x) == <<x>>
Get(d, k, default) == IF k \in DOMAIN d THEN d[k] ELSE default

(***************************************************************************)
(* actions/locators.py                                                     *)
(***************************************************************************)
SHOPEE_ID ==
    { <<"ads_center", k>> : k \in {"entry_url", "summary_section", "total_spend",
          "total_impressions", "total_clicks", "total_orders", "roas",
          "date_picker", "date_today", "date_7days", "date_30days"} }
    \cup { <<"product_list", k>> : k \in {"entry_url", "search_input",
          "search_button", "product_table", "product_row", "product_name",
          "product_sku", "product_price", "product_stock", "edit_btn",
          "more_actions_btn"} }
    \cup { <<"product_edit", k>> : k \in {"title_input", "description_textarea",
          "price_input", "stock_input", "sku_input", "save_btn",
          "save_and_publish_btn", "cancel_btn", "success_toast", "error_toast"} }

\* SHOPEE_MY, SHOPEE_TH, SHOPEE_VN, SHOPEE_PH, SHOPEE_SG hold base_url only.
SHOPEE_MY == {}

get_locators(site) ==
    IF site \in {"my", "th", "vn", "ph", "sg"} THEN SHOPEE_MY ELSE SHOPEE_ID

\* BaseAction.loc: a parsed locator, or None when the key is not a string.
loc(locators, section, key) ==
    IF <<section, key>> \in locators THEN Some(<<"css", section, key>>) ELSE None

\* self.locators.get(section, {}).get("entry_url")
entry_url(locators, section) ==
    IF <<section, "entry_url">> \in locators THEN Some(<<"url", section>>) ELSE None

(***************************************************************************)
(* core/browser_controller.py: ActionResult and the capability calls.      *)
(***************************************************************************)
ActionResult(ok, action, data, error_code, error_message) ==
    [ok |-> ok, action |-> action, data |-> data, error_code |-> error_code,
     error_message |-> error_message, evidence |-> None, timing_ms |-> None]

Ok(action, data) == ActionResult(TRUE, action, Some(data), None, None)
Fail(action, code, msg) == ActionResult(FALSE, action, None, Some(code), Some(msg))

\* The capability calls that write to the page: typing, clicking, key
\* presses and scripts.
MutatingCalls == {"send_keys", "click", "key_return", "element_send_keys", "script"}

\* navigate: True, or False on any exception (driver.get(None) raises).
navigate(url) == IF url = None THEN {FALSE} ELSE {TRUE, FALSE}
\* wait_and_click, safe_send_keys, scroll_to_element: bare except, a bool.
wait_and_click == {TRUE, FALSE}
safe_send_keys == {TRUE, FALSE}
\* get_text: the element's text (which may be empty), or None on any exception.
get_text == {Some("text"), Some(""), None}
\* Calls that let a driver error through: wait_for_element (only
\* TimeoutException is caught), check_element_exists (only
\* NoSuchElementException), execute_script, element.send_keys, screenshot.
CanRaise == faults < MaxFaults
DriverError == <<"WebDriverException">>
StoreError == <<"APIError">>

\* What a helper method did: the capability calls it issued, and its return
\* value or the exception it let through.
Returned(calls, ret) == [calls |-> calls, ret |-> ret, exc |-> None]
Raised(calls, dummy) == [calls |-> calls, ret |-> dummy, exc |-> Some(DriverError)]

(***************************************************************************)
(* actions/base_action.py: _validate_payload                               *)
(***************************************************************************)
\* Variant: the message names the first required field, missing or not.
validate_payload_first(payload, required_fields) ==
    IF \E i \in DOMAIN required_fields : required_fields[i] \notin DOMAIN payload
    THEN Some(<<"missing required field: ", Head(required_fields)>>)
    ELSE None

RECURSIVE validate_payload(_, _)
validate_payload(payload, required_fields) ==
    IF required_fields = <<>> THEN None
    ELSE IF Head(required_fields) \notin DOMAIN payload
         THEN Some(<<"missing required field: ", Head(required_fields)>>)
         ELSE validate_payload(payload, Tail(required_fields))


(***************************************************************************)
(* actions/update_title.py                                                 *)
(***************************************************************************)
NoResult == ActionResult(FALSE, "", None, None, None)

UT_search_product(locators) ==
    LET search_input_loc == loc(locators, "product_list", "search_input")
        search_btn_loc == loc(locators, "product_list", "search_button")
        typed == <<"send_keys">>
    IN  IF search_input_loc = None THEN {Returned(<<>>, FALSE)}
        ELSE {Returned(typed, FALSE)}
             \cup (IF search_btn_loc # None
                   THEN \* the result of wait_and_click is not looked at
                        {Returned(typed \o <<"click">>, TRUE)}
                   ELSE {Returned(typed \o <<"wait_for_element">>, TRUE),
                         Returned(typed \o <<"wait_for_element", "key_return">>, TRUE)}
                        \cup (IF CanRaise
                              THEN {Raised(typed \o <<"wait_for_element">>, FALSE),
                                    Raised(typed \o <<"wait_for_element", "key_return">>, FALSE)}
                              ELSE {}))

\* old_title or "[...]": an empty or missing text gives the placeholder.
UT_click_edit_button(locators) ==
    LET product_name_loc == loc(locators, "product_list", "product_name")
        edit_btn_loc == loc(locators, "product_list", "edit_btn")
        texts == IF product_name_loc # None THEN get_text ELSE {None}
        read == IF product_name_loc # None THEN <<"get_text">> ELSE <<>>
        title(t) == IF t = None \/ t = Some("") THEN "[no original title]" ELSE t[1]
    IN  IF edit_btn_loc = None THEN {Returned(read, None)}
        ELSE { Returned(read \o <<"click">>, IF c THEN Some(title(t)) ELSE None)
               : c \in wait_and_click, t \in texts }

UT_update_title_field(locators) ==
    LET title_input_loc == loc(locators, "product_edit", "title_input")
        c1 == <<"wait_for_element">>
        c2 == c1 \o <<"scroll", "script">>
        c3 == c2 \o <<"element_send_keys">>
        c4 == c3 \o <<"script">>
    IN  IF title_input_loc = None THEN {Returned(<<>>, FALSE)}
        ELSE {Returned(c1, FALSE), Returned(c4, TRUE)}
             \cup (IF CanRaise
                   THEN {Raised(c1, FALSE), Raised(c2, FALSE), Raised(c3, FALSE),
                         Raised(c4, FALSE)}
                   ELSE {})

UT_click_save(locators) ==
    LET save_btn_loc == loc(locators, "product_edit", "save_btn")
        success_toast_loc == loc(locators, "product_edit", "success_toast")
        error_toast_loc == loc(locators, "product_edit", "error_toast")
        ok(c, m) == Returned(c, [success |-> TRUE, message |-> m])
        ko(c, m) == Returned(c, [success |-> FALSE, message |-> m])
        boom(c) == Raised(c, [success |-> FALSE, message |-> <<>>])
        str(t) == IF t = None THEN "None" ELSE t[1]
        assumed == <<"save finished (no explicit toast detected)">>
        AfterError(c) ==
            IF error_toast_loc = None THEN {ok(c, assumed)}
            ELSE { ko(c \o <<"exists", "get_text">>, <<"save failed: ", str(t)>>)
                   : t \in get_text }
                 \cup {ok(c \o <<"exists">>, assumed)}
                 \cup (IF CanRaise THEN {boom(c \o <<"exists">>)} ELSE {})
        AfterClick(c) ==
            IF success_toast_loc = None THEN AfterError(c)
            ELSE {ok(c \o <<"exists">>, <<"saved">>)}
                 \cup AfterError(c \o <<"exists">>)
                 \cup (IF CanRaise THEN {boom(c \o <<"exists">>)} ELSE {})
    IN  IF save_btn_loc = None
        THEN {ko(<<>>, <<"save button locator not configured">>)}
        ELSE {ko(<<"script", "click">>, <<"cannot click save button">>)}
             \cup AfterClick(<<"script", "click">>)
             \cup (IF CanRaise THEN {boom(<<"script">>)} ELSE {})

\* Steps 5, 4, 3, 2 of _do_action, each given the calls issued so far.
UT_save(pre, payload, old_title, locators) ==
    { IF o.exc # None THEN Raised(pre \o o.calls, NoResult)
      ELSE IF ~o.ret.success
           THEN Returned(pre \o o.calls,
                         Fail("update_title", "SAVE_ERROR", o.ret.message))
           ELSE Returned(pre \o o.calls,
                         Ok("update_title",
                            [product_id |-> payload.product_id,
                             before_title |-> old_title,
                             after_title |-> payload.new_title]))
      : o \in UT_click_save(locators) }
\* Variant: the result of the title field step is not looked at.
UT_field_unchecked(pre, payload, old_title, locators) ==
    UNION { IF o.exc # None THEN {Raised(pre \o o.calls, NoResult)}
            ELSE UT_save(pre \o o.calls, payload, old_title, locators)
            : o \in UT_update_title_field(locators) }

UT_field(pre, payload, old_title, locators) ==
    UNION { IF o.exc # None THEN {Raised(pre \o o.calls, NoResult)}
            ELSE IF ~o.ret
                 THEN {Returned(pre \o o.calls,
                                Fail("update_title", "UPDATE_ERROR",
                                     <<"cannot modify the title field">>))}
                 ELSE UT_save(pre \o o.calls, payload, old_title, locators)
            : o \in UT_update_title_field(locators) }

UT_edit(pre, payload, locators) ==
    UNION { IF o.ret = None
            THEN {Returned(pre \o o.calls,
                           Fail("update_title", "PRODUCT_NOT_FOUND",
                                <<"product not found or edit not clickable: ",
                                  payload.product_id>>))}
            ELSE UT_field(pre \o o.calls, payload, o.ret[1], locators)
            : o \in UT_click_edit_button(locators) }

UT_search(pre, payload, locators) ==
    LET product_name == Get(payload, "product_name", payload.product_id)
    IN  UNION { IF o.exc # None THEN {Raised(pre \o o.calls, NoResult)}
                ELSE IF ~o.ret
                     THEN {Returned(pre \o o.calls,
                                    Fail("update_title", "SEARCH_ERROR",
                                         <<"product search failed: ", product_name>>))}
                     ELSE UT_edit(pre \o o.calls, payload, locators)
                : o \in UT_search_product(locators) }

update_title_do_action(context, payload, locators) ==
    LET validation_error == validate_payload(payload, <<"product_id", "new_title">>)
    IN  IF validation_error # None
        THEN {Returned(<<>>, Fail("update_title", "VALIDATION_ERROR",
                                  validation_error[1]))}
        ELSE IF context.dry_run
        THEN {Returned(<<>>, Ok("update_title",
                                [product_id |-> payload.product_id,
                                 new_title |-> payload.new_title,
                                 dry_run |-> TRUE,
                                 message |-> <<"dry run, nothing executed">>]))}
        ELSE UNION { IF ~n
                     THEN {Returned(<<"navigate">>,
                                    Fail("update_title", "NAVIGATION_ERROR",
                                         <<"cannot open the product list page">>))}
                     ELSE UT_search(<<"navigate">>, payload, locators)
                     : n \in navigate(entry_url(locators, "product_list")) }


(***************************************************************************)
(* actions/fetch_product_snapshot.py                                       *)
(***************************************************************************)
\* The return value is not looked at by _do_action; an exception is.
FP_search_product(locators) ==
    LET search_input_loc == loc(locators, "product_list", "search_input")
        typed == <<"send_keys">>
    IN  IF search_input_loc = None THEN {Returned(<<>>, FALSE)}
        ELSE {Returned(typed, FALSE),
              Returned(typed \o <<"wait_for_element">>, TRUE),
              Returned(typed \o <<"wait_for_element", "key_return">>, TRUE)}
             \cup (IF CanRaise
                   THEN {Raised(typed \o <<"wait_for_element">>, FALSE),
                         Raised(typed \o <<"wait_for_element", "key_return">>, FALSE)}
                   ELSE {})

\* The rows the page can show: each row has a product name or has none.
PageRows == UNION { [1..n -> BOOLEAN] : n \in 0..MaxRows }

\* Variant: every row is read, whatever the limit.
RECURSIVE products_of_unlimited(_, _, _)
products_of_unlimited(rows, limit, i) ==
    IF i > Len(rows) THEN <<>>
    ELSE (IF rows[i] THEN <<i - 1>> ELSE <<>>) \o products_of_unlimited(rows, limit, i + 1)

\* rows[:limit], keeping the rows _extract_product_from_row accepts; the
\* product's "index" is the row's position, from 0.
RECURSIVE products_of(_, _, _)
products_of(rows, limit, i) ==
    IF i > Len(rows) \/ i > limit THEN <<>>
    ELSE (IF rows[i] THEN <<i - 1>> ELSE <<>>) \o products_of(rows, limit, i + 1)

\* find_elements raising is caught inside: the list stays empty.
FP_extract_products(limit) ==
    { Returned(<<"find_elements">>, products_of(rows, limit, 1)) : rows \in PageRows }
    \cup {Returned(<<"find_elements">>, <<>>)}

FP_extract(pre, keyword, limit) ==
    { IF o.ret # <<>>
      THEN Returned(pre \o o.calls,
                    Ok("fetch_product_snapshot",
                       [keyword |-> keyword, count |-> Len(o.ret), products |-> o.ret]))
      ELSE Returned(pre \o o.calls,
                    Fail("fetch_product_snapshot", "NO_PRODUCTS",
                         <<"no product found">>))
      : o \in FP_extract_products(limit) }

fetch_product_snapshot_do_action(context, payload, locators) ==
    LET keyword == Get(payload, "keyword", "")
        limit == Get(payload, "limit", 10)
    IN  UNION { IF ~n
                THEN {Returned(<<"navigate">>,
                               Fail("fetch_product_snapshot", "NAVIGATION_ERROR",
                                    <<"cannot open the product list page">>))}
                ELSE IF keyword # ""
                THEN UNION { IF o.exc # None
                             THEN {Raised(<<"navigate">> \o o.calls, NoResult)}
                             ELSE FP_extract(<<"navigate">> \o o.calls, keyword, limit)
                             : o \in FP_search_product(locators) }
                ELSE FP_extract(<<"navigate">>, keyword, limit)
                : n \in navigate(entry_url(locators, "product_list")) }

(***************************************************************************)
(* actions/fetch_ads_summary.py                                            *)
(***************************************************************************)
range_key(date_range) ==
    CASE date_range = "today" -> "date_today"
      [] date_range = "7days" -> "date_7days"
      [] date_range = "30days" -> "date_30days"
      [] OTHER -> "date_today"

\* Returns nothing; the second click is issued only after the first succeeded.
FA_select_date_range(locators, date_range) ==
    LET date_picker_loc == loc(locators, "ads_center", "date_picker")
        range_loc == loc(locators, "ads_center", range_key(date_range))
    IN  IF date_picker_loc = None THEN {Returned(<<>>, TRUE)}
        ELSE {Returned(<<"click">>, TRUE),
              Returned(IF range_loc # None THEN <<"click", "click">> ELSE <<"click">>,
                       TRUE)}

MetricFields ==
    <<<<"spend", "total_spend">>, <<"impressions", "total_impressions">>,
      <<"clicks", "total_clicks">>, <<"orders", "total_orders">>, <<"roas", "roas">>>>

\* One get_text per configured field; the metrics are the fields whose text
\* is not empty.  With none, _extract_by_fallback reads the page source and
\* returns no metric either.
FA_extract_summary_data(locators) ==
    LET located == { i \in 1..Len(MetricFields) :
                       loc(locators, "ads_center", MetricFields[i][2]) # None }
        reads == [i \in 1..Cardinality(located) |-> "get_text"]
    IN  { Returned(IF found = {} THEN reads \o <<"page_source">> ELSE reads,
                   { MetricFields[i][1] : i \in found })
          : found \in SUBSET located }

fetch_ads_summary_do_action(context, payload, locators) ==
    LET date_range == Get(payload, "date_range", "today")
        ads_url == entry_url(locators, "ads_center")
    IN  IF ads_url = None
        THEN {Returned(<<>>, Fail("fetch_ads_summary", "CONFIG_ERROR",
                                  <<"ads center URL not configured">>))}
        ELSE UNION { IF ~n
                     THEN {Returned(<<"navigate">>,
                                    Fail("fetch_ads_summary", "NAVIGATION_ERROR",
                                         <<"cannot navigate to: ", ads_url[1]>>))}
                     ELSE { IF d.ret # {}
                            THEN Returned(<<"navigate">> \o s.calls \o d.calls,
                                          Ok("fetch_ads_summary",
                                             [date_range |-> date_range,
                                              metrics |-> d.ret]))
                            ELSE Returned(<<"navigate">> \o s.calls \o d.calls,
                                          Fail("fetch_ads_summary",
                                               "DATA_EXTRACTION_ERROR",
                                               <<"cannot extract the ads data">>))
                            : s \in FA_select_date_range(locators, date_range),
                              d \in FA_extract_summary_data(locators) }
                     : n \in navigate(ads_url) }

(***************************************************************************)
(* actions/__init__.py                                                     *)
(***************************************************************************)
ACTION_REGISTRY == {"fetch_ads_summary", "update_title", "fetch_product_snapshot"}

\* action._do_action of the class registered under the name.
do_action(action, context, payload, locators) ==
    CASE action = "update_title" -> update_title_do_action(context, payload, locators)
      [] action = "fetch_product_snapshot" ->
             fetch_product_snapshot_do_action(context, payload, locators)
      [] action = "fetch_ads_summary" ->
             fetch_ads_summary_do_action(context, payload, locators)


(***************************************************************************)
(* actions/base_action.py: BaseAction.execute, one activation per caller.  *)
(* pc: start -> before -> do_action -> after | except -> returned | raised *)
(* Besides the locals of the call the record keeps its history: calls (the *)
(* capability calls issued), core (how _do_action ended: ok, failed,       *)
(* raised), failed_shots (the stages whose screenshot raised) and          *)
(* shot_times (the clock at each screenshot).                              *)
(***************************************************************************)
Workers == {"w1", "w2"}

NoContext == [task_id |-> 0, run_id |-> 0, shop_id |-> "", site |-> "id", dry_run |-> FALSE]

ExIdle ==
    [pc |-> "idle", action |-> "", context |-> NoContext, payload |-> <<>>,
     store |-> FALSE, start_time |-> 0, before |-> None,
     result |-> NoResult, exc |-> None, calls |-> <<>>,
     core |-> "", failed_shots |-> {}, shot_times |-> <<>>]

\* action = action_class(browser, store); action.execute(context, payload)
ExecCall(action, context, payload, store) ==
    [ExIdle EXCEPT !.pc = "start", !.action = action, !.context = context,
                   !.payload = payload, !.store = store]

\* browser.screenshot_evidence(run_id, stage) followed by
\* store.save_artifact_record(run_id, type, path): the screenshot raises, or it
\* returns its path and the insert raises, or both succeed.
NoEvidence == [calls |-> <<>>, shot |-> None, saved |-> FALSE, exc |-> None]
Evidence(run_id, stage) ==
    LET path == <<run_id, stage>>
    IN  {[calls |-> <<"screenshot">>, shot |-> Some(path), saved |-> TRUE, exc |-> None]}
        \cup (IF CanRaise
              THEN {[calls |-> <<"screenshot">>, shot |-> None, saved |-> FALSE,
                     exc |-> Some(DriverError)],
                    [calls |-> <<"screenshot">>, shot |-> Some(path), saved |-> FALSE,
                     exc |-> Some(StoreError)]}
              ELSE {})
\* Variant: the record is not inserted.
save_artifact_record_dropped(table, run_id, artifact_type, local_path) == table

\* supabase_store.py: save_artifact_record
save_artifact_record(table, run_id, artifact_type, local_path) ==
    Append(table, [run_id |-> run_id, type |-> artifact_type,
                   url |-> <<"local://", local_path>>])

Charge(e) == IF e.exc # None THEN faults + 1 ELSE faults

\* The stage added to failed_shots when the screenshot itself raised.
ShotFailure(e, stage) == IF e.exc # None /\ e.shot = None THEN {stage} ELSE {}
ShotTimes(e) == [i \in 1..Len(e.calls) |-> now]

\* Variant: the operands of the subtraction swapped.
elapsed_ms_swapped(start_time) == start_time - now

\* int((time.time() - self.start_time) * 1000); time.time() is read as a
\* clock that does not go back during the call.
elapsed_ms(start_time) == now - start_time

\* Variant: an error code outside the taxonomy.
ExceptionResult_untyped(action_name, e, error_screenshot, start_time) ==
    [ActionResult(FALSE, action_name, None, Some("ERROR"), Some(e))
     EXCEPT !.evidence = IF error_screenshot # None
                         THEN Some([error_png |-> error_screenshot])
                         ELSE None,
            !.timing_ms = Some(elapsed_ms(start_time))]

\* lines 113-120: the result synthesized from an exception.
ExceptionResult(action_name, e, error_screenshot, start_time) ==
    [ActionResult(FALSE, action_name, None, Some("EXCEPTION"), Some(e))
     EXCEPT !.evidence = IF error_screenshot # None
                         THEN Some([error_png |-> error_screenshot])
                         ELSE None,
            !.timing_ms = Some(elapsed_ms(start_time))]
\* Variant: evidence is attached whether or not anything was captured.
FinishedResult_always(result, capture, before_screenshot, after_screenshot, start_time) ==
    [result EXCEPT !.evidence = Some([before_png |-> before_screenshot,
                                      after_png |-> after_screenshot]),
                   !.timing_ms = Some(elapsed_ms(start_time))]
\* Variant: the message of the outcome is not carried over.
FinishedResult_cleared(result, capture, before_screenshot, after_screenshot, start_time) ==
    [result EXCEPT !.error_message = None,
                   !.timing_ms = Some(elapsed_ms(start_time))]

\* lines 93-99: evidence attached after a successful action, and the timing.
FinishedResult(result, capture, before_screenshot, after_screenshot, start_time) ==
    [result EXCEPT !.evidence = IF capture
                                THEN Some([before_png |-> before_screenshot,
                                           after_png |-> after_screenshot])
                                ELSE @,
                   !.timing_ms = Some(elapsed_ms(start_time))]

\* lines 68-69: start_time = time.time(); set_site(context.site).  The
\* locators set_site loads are a function of the site: get_locators is
\* applied where _do_action reads them.
Execute_Start(w) ==
    /\ ex[w].pc = "start"
    /\ ex' = [ex EXCEPT ![w].pc = "before", ![w].start_time = now]
    /\ UNCHANGED <<tasks, runs, artifacts, provider, wk, now, utc, faults>>

\* lines 71-79: the before screenshot, outside the try block.
Execute_Before(w) ==
    /\ ex[w].pc = "before"
    /\ \E e \in (IF ex[w].store THEN Evidence(ex[w].context.run_id, "before")
                 ELSE {NoEvidence}) :
          /\ ex' = [ex EXCEPT ![w].pc = IF e.exc # None THEN "raised" ELSE "do_action",
                              ![w].exc = e.exc,
                              ![w].before = e.shot,
                              ![w].calls = @ \o e.calls,
                              ![w].failed_shots = @ \cup ShotFailure(e, "before"),
                              ![w].shot_times = @ \o ShotTimes(e)]
          /\ artifacts' = IF e.saved
                          THEN save_artifact_record(artifacts, ex[w].context.run_id,
                                                    "before", e.shot[1])
                          ELSE artifacts
          /\ faults' = Charge(e)
    /\ UNCHANGED <<tasks, runs, provider, wk, now, utc>>

\* lines 81-83: result = self._do_action(context, payload)
Execute_DoAction(w) ==
    /\ ex[w].pc = "do_action"
    /\ \E o \in do_action(ex[w].action, ex[w].context, ex[w].payload,
                          get_locators(ex[w].context.site)) :
          /\ ex' = [ex EXCEPT ![w].pc = IF o.exc # None THEN "except" ELSE "after",
                              ![w].exc = o.exc,
                              ![w].result = o.ret,
                              ![w].calls = @ \o o.calls,
                              ![w].core = IF o.exc # None THEN "raised"
                                          ELSE IF o.ret.ok THEN "ok" ELSE "failed"]
          /\ faults' = Charge(o)
    /\ UNCHANGED <<tasks, runs, artifacts, provider, wk, now, utc>>

\* lines 85-100: the after screenshot when the action succeeded, then timing.
Execute_After(w) ==
    /\ ex[w].pc = "after"
    /\ LET capture == ex[w].store /\ ex[w].result.ok
       IN  \E e \in (IF capture THEN Evidence(ex[w].context.run_id, "after")
                     ELSE {NoEvidence}) :
              /\ ex' = [ex EXCEPT
                          ![w].pc = IF e.exc # None THEN "except" ELSE "returned",
                          ![w].exc = e.exc,
                          ![w].calls = @ \o e.calls,
                          ![w].failed_shots = @ \cup ShotFailure(e, "after"),
                          ![w].shot_times = @ \o ShotTimes(e),
                          ![w].result =
                              IF e.exc # None THEN @
                              ELSE FinishedResult(@, capture, ex[w].before, e.shot,
                                                  ex[w].start_time)]
              /\ artifacts' = IF e.saved
                              THEN save_artifact_record(artifacts, ex[w].context.run_id,
                                                        "after", e.shot[1])
                              ELSE artifacts
              /\ faults' = Charge(e)
    /\ UNCHANGED <<tasks, runs, provider, wk, now, utc>>

\* lines 102-120: except Exception as e.  An exception raised inside the
\* handler leaves execute.
Execute_Except(w) ==
    /\ ex[w].pc = "except"
    /\ \E e \in (IF ex[w].store THEN Evidence(ex[w].context.run_id, "error")
                 ELSE {NoEvidence}) :
          /\ ex' = [ex EXCEPT
                      ![w].pc = IF e.exc # None THEN "raised" ELSE "returned",
                      ![w].exc = IF e.exc # None THEN e.exc ELSE @,
                      ![w].calls = @ \o e.calls,
                      ![w].failed_shots = @ \cup ShotFailure(e, "error"),
                      ![w].shot_times = @ \o ShotTimes(e),
                      ![w].result =
                          IF e.exc # None THEN @
                          ELSE ExceptionResult(ex[w].action, ex[w].exc[1], e.shot,
                                               ex[w].start_time)]
          /\ artifacts' = IF e.saved
                          THEN save_artifact_record(artifacts, ex[w].context.run_id,
                                                    "error", e.shot[1])
                          ELSE artifacts
          /\ faults' = Charge(e)
    /\ UNCHANGED <<tasks, runs, provider, wk, now, utc>>

\* time.time() moves on while an execute call is in progress.
Tick ==
    /\ now < MaxClock
    /\ \E w \in Workers : ex[w].pc \in {"start", "before", "do_action", "after", "except"}
    /\ now' = now + 1
    /\ UNCHANGED <<tasks, runs, artifacts, provider, wk, ex, utc, faults>>

Ended(w) == ex[w].pc \in {"returned", "raised"}

Execute(w) ==
    \/ Execute_Start(w)
    \/ Execute_Before(w)
    \/ Execute_DoAction(w)
    \/ Execute_After(w)
    \/ Execute_Except(w)

(***************************************************************************)
(* core/supabase_store.py: the agent_tasks and agent_runs tables.  A row's *)
(* id is its position in the table.  A call that raises has written        *)
(* nothing.                                                                *)
(***************************************************************************)
\* create_task: the row inserted, status queued.
NewTask(shop_id, action, payload, priority, dry_run, created_at) ==
    [shop_id |-> shop_id, action |-> action, payload |-> payload,
     status |-> "queued", priority |-> priority, dry_run |-> dry_run,
     created_at |-> created_at, error |-> None]

Queued(table) == { i \in DOMAIN table : table[i].status = "queued" }

\* .order("priority", desc=True).order("created_at"): a sorts no later than b.
SortsBefore(a, b) ==
    \/ a.priority > b.priority
    \/ a.priority = b.priority /\ a.created_at <= b.created_at

\* The orders in which the database can return the rows ids: every
\* arrangement that is sorted (rows that tie may come either way).
Ordered(table, ids) ==
    { q \in [1..Cardinality(ids) -> ids] :
         /\ \A i, j \in DOMAIN q : i # j => q[i] # q[j]
         /\ \A i, j \in DOMAIN q : i < j => SortsBefore(table[q[i]], table[q[j]]) }

\* Variant: the status filter left out.
get_next_task_any_status(table) ==
    { IF q = <<>> THEN 0 ELSE q[1] : q \in Ordered(table, DOMAIN table) }

\* Variant: ordered by created_at alone.
get_next_task_fifo(table) ==
    { i \in Queued(table) :
         \A j \in Queued(table) : table[i].created_at <= table[j].created_at }
    \cup (IF Queued(table) = {} THEN {0} ELSE {})

\* get_next_task: .eq("status", "queued"), ordered, .limit(1); the id of the
\* row returned, 0 for None.
get_next_task(table) ==
    { IF q = <<>> THEN 0 ELSE q[1] : q \in Ordered(table, Queued(table)) }

\* Variant: a task that failed is put back in the queue.
update_task_status_requeue(table, task_id, status, error) ==
    [table EXCEPT ![task_id].status = IF status = "failed" THEN "queued" ELSE status,
                  ![task_id].error = IF error # None /\ error # Some(<<>>)
                                     THEN error ELSE @]
\* Variant: a failure is noted in the error column only.
update_task_status_error_only(table, task_id, status, error) ==
    [table EXCEPT ![task_id].status = IF status = "failed" THEN @ ELSE status,
                  ![task_id].error = IF error # None /\ error # Some(<<>>)
                                     THEN error ELSE @]

\* update_task_status: "if error:" skips None and the empty string.
update_task_status(table, task_id, status, error) ==
    [table EXCEPT ![task_id].status = status,
                  ![task_id].error = IF error # None /\ error # Some(<<>>)
                                     THEN error ELSE @]

\* create_run: the new table; the run's id is its length.
create_run(table, task_id, worker_id) ==
    Append(table, [task_id |-> task_id, worker_id |-> worker_id,
                   result |-> None, error |-> None, completions |-> 0])
\* Variant: complete_run leaves the row as it was.
complete_run_unrecorded(table, run_id, result, error) == table

\* complete_run: end_at and result are written, error when it is not empty.
\* completions counts the times the row was completed.
complete_run(table, run_id, result, error) ==
    [table EXCEPT ![run_id].result = Some(result),
                  ![run_id].error = IF error # None /\ error # Some(<<>>)
                                    THEN error ELSE @,
                  ![run_id].completions = @ + 1]

(***************************************************************************)
(* worker.py: the Worker.  shop_browser_map maps two shops; a third shop   *)
(* that tasks may name is not mapped.                                      *)
(***************************************************************************)
shop_browser_map == [shop_01 |-> "b1", shop_02 |-> "b2"]
Shops == {"shop_01", "shop_02", "shop_03"}

WkStart ==
    [pc |-> "loop", running |-> TRUE, task_id |-> 0, run_id |-> 0, browser |-> 0,
     result |-> NoResult, exc |-> None, active_browsers |-> <<>>,
     controllers |-> <<>>]
WkOff == [WkStart EXCEPT !.pc = "off", !.running = FALSE]

ProviderStart ==
    [calls |-> [b \in {"b1", "b2"} |-> 0], started |-> [b \in {"b1", "b2"} |-> 0],
     exits |-> 0]

\* payload.get("locale", "id").split("-")[0]
SiteOf(payload) ==
    LET locale == Get(payload, "locale", "id")
    IN  CASE locale = "id-ID" -> "id"
          [] locale = "my-MY" -> "my"
          [] OTHER -> locale

\* The tasks the producer inserts (create_task is called from outside).
TaskMenu ==
    { [shop_id |-> "shop_01", action |-> "update_title", dry_run |-> TRUE,
       payload |-> [product_id |-> "p1", new_title |-> "T"]],
      [shop_id |-> "shop_02", action |-> "update_title", dry_run |-> FALSE,
       payload |-> [product_id |-> "p1"]],
      [shop_id |-> "shop_01", action |-> "fetch_snapshot", dry_run |-> FALSE,
       payload |-> [keyword |-> "", limit |-> 3]],
      [shop_id |-> "shop_03", action |-> "fetch_ads_summary", dry_run |-> FALSE,
       payload |-> [date_range |-> "7days"]] }
Priorities == {1, 5}

\* create_task, by the producer; created_at is datetime.utcnow(), read to the
\* microsecond: every insert gets an instant of its own.  An insert commutes
\* with every step of a worker but its poll, so inserts are taken while a
\* worker is at its loop test.
CreateTask ==
    /\ Len(tasks) < MaxTasks
    /\ \E w \in Workers : wk[w].pc = "loop"
    /\ \E t \in TaskMenu, priority \in Priorities :
          /\ utc' = utc + 1
          /\ tasks' = Append(tasks, NewTask(t.shop_id, t.action, t.payload, priority,
                                            t.dry_run, utc + 1))
    /\ UNCHANGED <<runs, artifacts, provider, wk, ex, now, faults>>

\* A Supabase call: it succeeds, or (within the fault budget) raises.
StoreCall == {"ok"} \cup (IF CanRaise THEN {"raise"} ELSE {})
ChargeCall(r) == IF r = "raise" THEN faults + 1 ELSE faults

\* Variant: the loop test does not read the flag.
Loop_unconditional(w) ==
    /\ wk[w].pc = "loop"
    /\ wk' = [wk EXCEPT ![w].pc = "poll"]
    /\ UNCHANGED <<tasks, runs, artifacts, provider, ex, now, utc, faults>>

\* run_loop line 218: while self._running
Loop(w) ==
    /\ wk[w].pc = "loop"
    /\ wk' = [wk EXCEPT ![w].pc = IF wk[w].running THEN "poll" ELSE "cleanup"]
    /\ UNCHANGED <<tasks, runs, artifacts, provider, ex, now, utc, faults>>

\* run_once lines 201-203: task = self.store.get_next_task()
Poll(w) ==
    /\ wk[w].pc = "poll"
    /\ \E r \in StoreCall, t \in get_next_task(tasks) :
          /\ wk' = [wk EXCEPT ![w].pc = IF r = "raise" THEN "loop_except"
                                        ELSE IF t = 0 THEN "sleep" ELSE "mark_running",
                              ![w].exc = IF r = "raise" THEN Some(StoreError) ELSE None,
                              ![w].task_id = IF r = "raise" THEN 0 ELSE t,
                              ![w].run_id = 0,
                              ![w].result = NoResult]
          /\ faults' = ChargeCall(r)
    /\ UNCHANGED <<tasks, runs, artifacts, provider, ex, now, utc>>
\* Variant: a compare-and-swap; a row that is no longer queued is left alone
\* and the cycle ends there.
MarkRunning_cas(w) ==
    /\ wk[w].pc = "mark_running"
    /\ \E r \in StoreCall :
          LET won == r = "ok" /\ tasks[wk[w].task_id].status = "queued"
          IN  /\ tasks' = IF won
                          THEN update_task_status(tasks, wk[w].task_id, "running", None)
                          ELSE tasks
              /\ wk' = [wk EXCEPT ![w].pc = IF won THEN "create_run"
                                            ELSE IF r = "ok" THEN "sleep"
                                            ELSE "loop_except",
                                  ![w].exc = IF r = "ok" THEN None ELSE Some(StoreError)]
              /\ faults' = ChargeCall(r)
    /\ UNCHANGED <<runs, artifacts, provider, ex, now, utc>>

\* execute_task line 137, before the try block.
MarkRunning(w) ==
    /\ wk[w].pc = "mark_running"
    /\ \E r \in StoreCall :
          /\ tasks' = IF r = "ok"
                      THEN update_task_status(tasks, wk[w].task_id, "running", None)
                      ELSE tasks
          /\ wk' = [wk EXCEPT ![w].pc = IF r = "ok" THEN "create_run" ELSE "loop_except",
                              ![w].exc = IF r = "ok" THEN None ELSE Some(StoreError)]
          /\ faults' = ChargeCall(r)
    /\ UNCHANGED <<runs, artifacts, provider, ex, now, utc>>

\* execute_task line 140, before the try block.
CreateRun(w) ==
    /\ wk[w].pc = "create_run"
    /\ \E r \in StoreCall :
          /\ runs' = IF r = "ok" THEN create_run(runs, wk[w].task_id, w) ELSE runs
          /\ wk' = [wk EXCEPT ![w].pc = IF r = "ok" THEN "get_browser" ELSE "loop_except",
                              ![w].run_id = IF r = "ok" THEN Len(runs) + 1 ELSE 0,
                              ![w].exc = IF r = "ok" THEN None ELSE Some(StoreError)]
          /\ faults' = ChargeCall(r)
    /\ UNCHANGED <<tasks, artifacts, provider, ex, now, utc>>

\* Variant: the controller is put in the pool before its connect check.
pool_put_unchecked(active_browsers, shop_id, handle, o) ==
    IF o \in {"connect_failed", "connected"}
    THEN (shop_id :> handle) @@ active_browsers ELSE active_browsers

\* line 115: self.active_browsers[shop_id] = controller, reached only when
\* connect() returned True.
pool_put(active_browsers, shop_id, handle, o) ==
    IF o = "connected" THEN (shop_id :> handle) @@ active_browsers ELSE active_browsers

\* Variant: the pool is not consulted.
BrowserOutcomes_no_reuse(w, shop_id) ==
    IF shop_id \notin DOMAIN shop_browser_map THEN {"unmapped"}
    ELSE {"connected"}
         \cup (IF CanRaise THEN {"start_failed", "connect_failed"} ELSE {})

\* get_browser_for_shop: what the call can come to for a shop.  A browser
\* that does not start and a driver that does not connect are faults of the
\* environment, within the fault budget.
BrowserOutcomes(w, shop_id) ==
    IF shop_id \in DOMAIN wk[w].active_browsers THEN {"pooled"}
    ELSE IF shop_id \notin DOMAIN shop_browser_map THEN {"unmapped"}
    ELSE {"connected"}
         \cup (IF CanRaise THEN {"start_failed", "connect_failed"} ELSE {})

\* execute_task lines 144-146 with get_browser_for_shop lines 84-116.
GetBrowser(w) ==
    /\ wk[w].pc = "get_browser"
    /\ LET shop_id == tasks[wk[w].task_id].shop_id
           handle == Len(wk[w].controllers) + 1
       IN  \E o \in BrowserOutcomes(w, shop_id) :
              LET browser_id == IF o \in {"pooled", "unmapped"} THEN "b1"
                                ELSE shop_browser_map[shop_id]
                  called == o \in {"start_failed", "connect_failed", "connected"}
                  created == o \in {"connect_failed", "connected"}
                  browser == IF o = "pooled" THEN wk[w].active_browsers[shop_id]
                             ELSE IF o = "connected" THEN handle ELSE 0
              IN  /\ provider' =
                        [provider EXCEPT
                           !.calls[browser_id] = IF called THEN @ + 1 ELSE @,
                           !.started[browser_id] = IF created THEN @ + 1 ELSE @]
                  /\ wk' = [wk EXCEPT
                              ![w].controllers =
                                  IF created
                                  THEN Append(@, [browser_id |-> browser_id,
                                                  connected |-> o = "connected",
                                                  disconnects |-> 0])
                                  ELSE @,
                              ![w].active_browsers = pool_put(@, shop_id, handle, o),
                              ![w].browser = browser,
                              ![w].exc =
                                  IF browser = 0
                                  THEN Some(<<"cannot get the browser of shop ", shop_id>>)
                                  ELSE None,
                              ![w].pc = IF browser = 0 THEN "except" ELSE "get_action"]
                  /\ faults' = IF o \in {"start_failed", "connect_failed"}
                               THEN faults + 1 ELSE faults
    /\ UNCHANGED <<tasks, runs, artifacts, ex, now, utc>>

\* execute_task lines 149-162: get_action_class raises ValueError for a name
\* that is not registered; otherwise the action is built with the store and
\* execute is called.
GetAction(w) ==
    /\ wk[w].pc = "get_action"
    /\ LET task == tasks[wk[w].task_id]
           known == task.action \in ACTION_REGISTRY
       IN  /\ wk' = [wk EXCEPT
                       ![w].pc = IF known THEN "execute" ELSE "except",
                       ![w].exc = IF known THEN None
                                  ELSE Some(<<"unknown action: ", task.action>>)]
           /\ ex' = [ex EXCEPT
                       ![w] = IF known
                              THEN ExecCall(task.action,
                                            [task_id |-> wk[w].task_id,
                                             run_id |-> wk[w].run_id,
                                             shop_id |-> task.shop_id,
                                             site |-> SiteOf(task.payload),
                                             dry_run |-> task.dry_run],
                                            task.payload, TRUE)
                              ELSE @]
    /\ UNCHANGED <<tasks, runs, artifacts, provider, now, utc, faults>>

\* execute_task line 162: execute has returned its result, or has raised.
ExecuteDone(w) ==
    /\ wk[w].pc = "execute"
    /\ Ended(w)
    /\ wk' = [wk EXCEPT
                ![w].pc = IF ex[w].pc = "returned" THEN "complete_run" ELSE "except",
                ![w].result = IF ex[w].pc = "returned" THEN ex[w].result ELSE @,
                ![w].exc = IF ex[w].pc = "returned" THEN None ELSE ex[w].exc]
    /\ ex' = [ex EXCEPT ![w] = ExIdle]
    /\ UNCHANGED <<tasks, runs, artifacts, provider, now, utc, faults>>

\* execute_task lines 165-169
CompleteRun(w) ==
    /\ wk[w].pc = "complete_run"
    /\ \E r \in StoreCall :
          /\ runs' = IF r = "ok"
                     THEN complete_run(runs, wk[w].run_id, wk[w].result,
                                       IF ~wk[w].result.ok
                                       THEN wk[w].result.error_message ELSE None)
                     ELSE runs
          /\ wk' = [wk EXCEPT ![w].pc = IF r = "ok" THEN "update_status" ELSE "except",
                              ![w].exc = IF r = "ok" THEN None ELSE Some(StoreError)]
          /\ faults' = ChargeCall(r)
    /\ UNCHANGED <<tasks, artifacts, provider, ex, now, utc>>

\* f"{result.error_code}: {result.error_message}"
TaskError(result) ==
    <<IF result.error_code = None THEN "None" ELSE result.error_code[1], ": ">>
    \o (IF result.error_message = None THEN <<"None">> ELSE result.error_message[1])

\* execute_task lines 172-183
UpdateStatus(w) ==
    /\ wk[w].pc = "update_status"
    /\ \E r \in StoreCall :
          /\ tasks' = IF r = "raise" THEN tasks
                      ELSE IF wk[w].result.ok
                      THEN update_task_status(tasks, wk[w].task_id, "success", None)
                      ELSE update_task_status(tasks, wk[w].task_id, "failed",
                                              Some(TaskError(wk[w].result)))
          /\ wk' = [wk EXCEPT ![w].pc = IF r = "ok" THEN "sleep" ELSE "except",
                              ![w].exc = IF r = "ok" THEN None ELSE Some(StoreError)]
          /\ faults' = ChargeCall(r)
    /\ UNCHANGED <<runs, artifacts, provider, ex, now, utc>>

\* execute_task lines 185-189: except Exception as e, complete_run
Except(w) ==
    /\ wk[w].pc = "except"
    /\ \E r \in StoreCall :
          /\ runs' = IF r = "ok"
                     THEN complete_run(runs, wk[w].run_id, <<>>, wk[w].exc)
                     ELSE runs
          /\ wk' = [wk EXCEPT ![w].pc = IF r = "ok" THEN "except_status" ELSE "loop_except",
                              ![w].exc = IF r = "ok" THEN @ ELSE Some(StoreError)]
          /\ faults' = ChargeCall(r)
    /\ UNCHANGED <<tasks, artifacts, provider, ex, now, utc>>

\* execute_task lines 190-192
ExceptStatus(w) ==
    /\ wk[w].pc = "except_status"
    /\ \E r \in StoreCall :
          /\ tasks' = IF r = "ok"
                      THEN update_task_status(tasks, wk[w].task_id, "failed", wk[w].exc)
                      ELSE tasks
          /\ wk' = [wk EXCEPT ![w].pc = IF r = "ok" THEN "sleep" ELSE "loop_except",
                              ![w].exc = IF r = "ok" THEN None ELSE Some(StoreError)]
          /\ faults' = ChargeCall(r)
    /\ UNCHANGED <<runs, artifacts, provider, ex, now, utc>>

\* Variant: an exception that left the cycle ends the loop.
Unwound_break(worker, pc) ==
    [worker EXCEPT !.pc = IF worker.pc = "loop_except" THEN "cleanup" ELSE pc,
                   !.task_id = 0, !.run_id = 0, !.browser = 0,
                   !.result = NoResult, !.exc = None]
\* Variant: the pool is emptied when a cycle is over.
Unwound_evicting(worker, pc) ==
    [worker EXCEPT !.pc = pc, !.task_id = 0, !.run_id = 0, !.browser = 0,
                   !.result = NoResult, !.exc = None, !.active_browsers = <<>>]

\* The frames of run_once and execute_task are gone: their locals with them.
Unwound(worker, pc) ==
    [worker EXCEPT !.pc = pc, !.task_id = 0, !.run_id = 0, !.browser = 0,
                   !.result = NoResult, !.exc = None]

\* run_loop lines 222-227 (time.sleep after a cycle) and lines 232-234 (the
\* handler of an exception that left the cycle): back to the loop test.
Sleep(w) ==
    /\ wk[w].pc \in {"sleep", "loop_except"}
    /\ wk' = [wk EXCEPT ![w] = Unwound(wk[w], "loop")]
    /\ UNCHANGED <<tasks, runs, artifacts, provider, ex, now, utc, faults>>

\* stop(), called from outside the loop.  The flag is read at the loop test
\* alone, so a call made during a cycle is taken when the cycle has ended.
Stop(w) ==
    /\ wk[w].pc \in {"sleep", "loop_except", "loop"}
    /\ wk[w].running
    /\ wk' = [wk EXCEPT ![w].running = FALSE]
    /\ UNCHANGED <<tasks, runs, artifacts, provider, ex, now, utc, faults>>

\* KeyboardInterrupt: inside the try of run_loop it breaks out of the loop
\* (line 229) and cleanup follows; in the handler's sleep or at the loop test
\* it leaves run_loop, and main's finally runs cleanup.
Interrupt(w) ==
    /\ wk[w].pc \notin {"off", "cleanup", "main_cleanup", "exited"}
    /\ wk' = [wk EXCEPT ![w] = Unwound(wk[w], IF wk[w].pc \in {"loop", "loop_except"}
                                               THEN "main_cleanup" ELSE "cleanup")]
    /\ ex' = [ex EXCEPT ![w] = ExIdle]
    /\ UNCHANGED <<tasks, runs, artifacts, provider, now, utc, faults>>

\* browser_controller.py: disconnect.  driver.quit() is called when a driver
\* is held; when quit raises, the driver is kept.  disconnects counts the
\* calls.
disconnect(controller, raises) ==
    [controller EXCEPT !.connected = IF raises THEN @ ELSE FALSE,
                       !.disconnects = @ + 1]

Pooled(w) == { wk[w].active_browsers[s] : s \in DOMAIN wk[w].active_browsers }
\* Variant: a disconnect that raises ends the teardown on the spot.
Cleanup_unguarded(w) ==
    /\ wk[w].pc \in {"cleanup", "main_cleanup"}
    /\ LET held == { h \in Pooled(w) : wk[w].controllers[h].connected }
       IN  \E failing \in SUBSET held :
              /\ Cardinality(failing) <= MaxFaults - faults
              /\ wk' = [wk EXCEPT
                          ![w].controllers =
                              [h \in DOMAIN @ |->
                                 IF h \in Pooled(w) /\ (failing = {} \/ h \in failing)
                                 THEN disconnect(@[h], h \in failing)
                                 ELSE @[h]],
                          ![w].pc = IF wk[w].pc = "cleanup" /\ failing = {}
                                    THEN "main_cleanup" ELSE "exited"]
              /\ faults' = faults + Cardinality(failing)
              /\ provider' = [provider EXCEPT
                                !.exits = IF failing = {} THEN @ + 1 ELSE @]
    /\ UNCHANGED <<tasks, runs, artifacts, ex, now, utc>>

\* cleanup, at the end of run_loop (line 236) and again in main's finally
\* (line 282): disconnect every pooled controller, whatever a disconnect
\* raises, then exit the client (exit_client catches its own exceptions).
Cleanup(w) ==
    /\ wk[w].pc \in {"cleanup", "main_cleanup"}
    /\ LET held == { h \in Pooled(w) : wk[w].controllers[h].connected }
       IN  \E failing \in SUBSET held :
              /\ Cardinality(failing) <= MaxFaults - faults
              /\ wk' = [wk EXCEPT
                          ![w].controllers =
                              [h \in DOMAIN @ |->
                                 IF h \in Pooled(w) THEN disconnect(@[h], h \in failing)
                                 ELSE @[h]],
                          ![w].pc = IF wk[w].pc = "cleanup" THEN "main_cleanup"
                                    ELSE "exited"]
              /\ faults' = faults + Cardinality(failing)
    /\ provider' = [provider EXCEPT !.exits = @ + 1]
    /\ UNCHANGED <<tasks, runs, artifacts, ex, now, utc>>

WorkerStep(w) ==
    \/ Loop(w)
    \/ Poll(w)
    \/ MarkRunning(w)
    \/ CreateRun(w)
    \/ GetBrowser(w)
    \/ GetAction(w)
    \/ ExecuteDone(w)
    \/ CompleteRun(w)
    \/ UpdateStatus(w)
    \/ Except(w)
    \/ ExceptStatus(w)
    \/ Sleep(w)
    \/ Stop(w)
    \/ Interrupt(w)
    \/ Cleanup(w)

(***************************************************************************)
(* One worker process (main) against the Task Store and its producer.  The *)
(* clock of execute stands still here; SpecExec moves it.                  *)
(***************************************************************************)
Init ==
    /\ tasks = <<>> /\ runs = <<>> /\ artifacts = <<>>
    /\ provider = ProviderStart
    /\ wk = [w \in Workers |-> IF w = "w1" THEN WkStart ELSE WkOff]
    /\ ex = [w \in Workers |-> ExIdle]
    /\ now = 0 /\ utc = 0 /\ faults = 0

Next == CreateTask \/ \E w \in Workers : WorkerStep(w) \/ Execute(w)

Spec == Init /\ [][Next]_vars

(***************************************************************************)
(* One execute call on its own, as test_runner.py makes it: any registered *)
(* action, any context and payload, with or without a store.               *)
(***************************************************************************)
Payloads ==
    { [product_id |-> "p1", new_title |-> "T"],
      [product_id |-> "p1"],
      [new_title |-> "T"],
      [keyword |-> "kw", limit |-> 1],
      [keyword |-> "", limit |-> 3],
      [date_range |-> "7days"] }

\* A call on its own is followed through ExecFaults failures of its
\* environment: the count starts that far below MaxFaults.
InitExec ==
    /\ tasks = <<>> /\ runs = <<>> /\ artifacts = <<>> /\ provider = ProviderStart
    /\ wk = [w \in Workers |-> WkOff]
    /\ now = 0 /\ utc = 0 /\ faults = MaxFaults - ExecFaults
    /\ \E a \in ACTION_REGISTRY, site \in {"id", "my"}, dry_run \in BOOLEAN,
          p \in Payloads, store \in BOOLEAN :
          ex = [w \in Workers |->
                  IF w = "w1"
                  THEN ExecCall(a, [task_id |-> 1, run_id |-> 1, shop_id |-> "shop_01",
                                    site |-> site, dry_run |-> dry_run], p, store)
                  ELSE ExIdle]

NextExec == Tick \/ \E w \in Workers : Execute(w)

SpecExec == InitExec /\ [][NextExec]_vars


(***************************************************************************)
(* Properties of BaseAction.execute (checked under SpecExec).              *)
(***************************************************************************)
ArtifactCount(run_id, type) ==
    Cardinality({ i \in DOMAIN artifacts :
                    artifacts[i].run_id = run_id /\ artifacts[i].type = type })

\* The evidence reference an outcome holds for a stage, None when absent.
EvidenceRef(result, stage) ==
    IF result.evidence = None THEN None
    ELSE LET key == IF stage = "before" THEN "before_png"
                    ELSE IF stage = "after" THEN "after_png" ELSE "error_png"
         IN  Get(result.evidence[1], key, None)

ErrorTaxonomy ==
    {"VALIDATION_ERROR", "CONFIG_ERROR", "NAVIGATION_ERROR", "SEARCH_ERROR",
     "PRODUCT_NOT_FOUND", "DATA_EXTRACTION_ERROR", "NO_PRODUCTS", "UPDATE_ERROR",
     "SAVE_ERROR", "EXCEPTION"}

\* C2: execute never propagates an exception to its caller: whatever the
\* action, context and payload, and however the core logic ends, the call
\* ends by returning an ActionResult.
C2_ExecuteNeverRaises == \A w \in Workers : ex[w].pc # "raised"

\* C3: with evidence capture enabled the artifacts of a run follow the path
\* taken: action returned ok=true: one before, one after, no error; action
\* returned ok=false: one before, no after; action raised: one before, one
\* error, no after.
C3_ArtifactsFollowPath ==
    \A w \in Workers :
       (Ended(w) /\ ex[w].store) =>
          LET before == ArtifactCount(ex[w].context.run_id, "before")
              after == ArtifactCount(ex[w].context.run_id, "after")
              error == ArtifactCount(ex[w].context.run_id, "error")
          IN  /\ ex[w].core = "ok" => (before = 1 /\ after = 1 /\ error = 0)
              /\ ex[w].core = "failed" => (before = 1 /\ after = 0)
              /\ ex[w].core = "raised" => (before = 1 /\ error = 1 /\ after = 0)

\* C4: a screenshot that fails at the before, after or error capture point
\* does not crash execute: the call still returns an ActionResult, in which
\* the screenshot that could not be taken is an absent evidence reference.
C4_ScreenshotFailureTolerated ==
    \A w \in Workers :
       (Ended(w) /\ ex[w].failed_shots # {}) =>
          /\ ex[w].pc = "returned"
          /\ \A stage \in ex[w].failed_shots : EvidenceRef(ex[w].result, stage) = None

\* The payload keys an action declares as required.
RequiredKeys(action) ==
    IF action = "update_title" THEN {"product_id", "new_title"} ELSE {}

\* C5: for every registered action, an outcome returned under dry_run=true
\* (for a payload that carries the action's required keys) has ok=true and
\* data containing dry_run=true.
C5_DryRunReturnsOk ==
    \A w \in Workers :
       (/\ ex[w].pc = "returned"
        /\ ex[w].context.dry_run
        /\ ex[w].action \in ACTION_REGISTRY
        /\ RequiredKeys(ex[w].action) \subseteq DOMAIN ex[w].payload) =>
          /\ ex[w].result.ok
          /\ ex[w].result.data # None
          /\ "dry_run" \in DOMAIN ex[w].result.data[1]
          /\ ex[w].result.data[1].dry_run = TRUE

\* C6: during an execute call with dry_run=true no mutating capability call
\* (typing, click, key press, script) is issued on the page session.
C6_DryRunIssuesNoMutatingCall ==
    \A w \in Workers :
       ex[w].context.dry_run =>
          \A i \in DOMAIN ex[w].calls : ex[w].calls[i] \notin MutatingCalls

\* C7: an update_title call whose payload lacks product_id or new_title
\* issues no navigate, locate, click, type or read capability call, whatever
\* dry_run is, and the outcome it returns has ok=false, error_code
\* VALIDATION_ERROR and a message naming a key that is missing.
C7_MissingKeyIsValidationError ==
    \A w \in Workers :
       (/\ ex[w].pc # "idle"
        /\ ex[w].action = "update_title"
        /\ ~({"product_id", "new_title"} \subseteq DOMAIN ex[w].payload)) =>
          /\ \A i \in DOMAIN ex[w].calls : ex[w].calls[i] = "screenshot"
          /\ ex[w].core \in {"", "failed"}
          /\ ex[w].pc \in {"after", "returned"} =>
                /\ ~ex[w].result.ok
                /\ ex[w].result.error_code = Some("VALIDATION_ERROR")
                /\ \E k \in {"product_id", "new_title"} \ DOMAIN ex[w].payload :
                      ex[w].result.error_message = Some(<<"missing required field: ", k>>)

C7_Witness ==
    \E w \in Workers :
       /\ ex[w].pc = "returned"
       /\ ex[w].action = "update_title"
       /\ ex[w].context.dry_run
       /\ ex[w].store
       /\ DOMAIN ex[w].payload = {"product_id"}
       /\ ex[w].result.error_code = Some("VALIDATION_ERROR")

\* C8: every ActionResult returned by execute has no error_code and no
\* error_message when ok=true, and an error_code of the taxonomy when
\* ok=false.
C8_ResultWellFormed ==
    \A w \in Workers :
       ex[w].pc = "returned" =>
          /\ ex[w].result.ok =>
                (ex[w].result.error_code = None /\ ex[w].result.error_message = None)
          /\ ~ex[w].result.ok =>
                (/\ ex[w].result.error_code # None
                 /\ ex[w].result.error_code[1] \in ErrorTaxonomy)

C8_Witness ==
    \E w \in Workers :
       /\ ex[w].pc = "returned"
       /\ ~ex[w].result.ok
       /\ ex[w].result.error_code = Some("EXCEPTION")
       /\ ex[w].core = "ok"

\* C9: every outcome returned by execute, on the ok=true, ok=false and
\* exception paths alike, has timing_ms set to a non-negative integer that
\* spans the call from its start, before the before screenshot, to its
\* return, after the last screenshot.
C9_TimingSetAndNonNegative ==
    \A w \in Workers :
       ex[w].pc = "returned" =>
          /\ ex[w].result.timing_ms # None
          /\ ex[w].result.timing_ms[1] >= 0
          /\ ex[w].result.timing_ms[1] = now - ex[w].start_time
          /\ \A i \in DOMAIN ex[w].shot_times :
                /\ ex[w].start_time <= ex[w].shot_times[i]
                /\ ex[w].shot_times[i] <= ex[w].start_time + ex[w].result.timing_ms[1]

C9_Witness ==
    \E w \in Workers :
       /\ ex[w].pc = "returned"
       /\ ex[w].core = "raised"
       /\ Len(ex[w].shot_times) = 2
       /\ ex[w].shot_times[1] < ex[w].shot_times[2]
       /\ ex[w].result.timing_ms[1] > 0

(***************************************************************************)
(* The worker loop (Spec).                                                 *)
(***************************************************************************)
StatusMoves ==
    { <<"queued", "running">>, <<"running", "success">>, <<"running", "failed">> }

\* C1: with a single worker a task's status only ever moves queued -> running
\* and running -> success or failed: no write takes a task out of success or
\* failed, and none takes a running task back to queued.
C1_StatusMovesForward ==
    [][\A t \in DOMAIN tasks :
          tasks'[t].status # tasks[t].status =>
             <<tasks[t].status, tasks'[t].status>> \in StatusMoves]_vars

\* A task has been taken to success and another to failed.
C1_Witness ==
    \E t, u \in DOMAIN tasks :
       /\ tasks[t].status = "success"
       /\ tasks[u].status = "failed"
       /\ tasks[u].error # None

\* Row u is ahead of row t in the queue: higher priority, or the same
\* priority and created earlier.
Ahead(table, u, t) ==
    \/ table[u].priority > table[t].priority
    \/ table[u].priority = table[t].priority /\ table[u].created_at < table[t].created_at

\* Runs were created in queue order: a task that ran before an older one has
\* the higher priority.
RunsInQueueOrder ==
    \A i, j \in DOMAIN runs :
       i < j /\ tasks[runs[j].task_id].created_at < tasks[runs[i].task_id].created_at
          => tasks[runs[i].task_id].priority > tasks[runs[j].task_id].priority

\* C10: the task a poll returns is queued and no queued task is ahead of it
\* (higher priority first, the earliest created_at among equal priorities);
\* a poll returns no task exactly when none is queued; so the worker's cycles
\* run the queued tasks in that order.
C10_NextTaskIsBestQueued ==
    /\ [][\A w \in Workers :
             wk[w].pc = "poll" =>
                /\ wk'[w].pc = "mark_running" =>
                      /\ wk'[w].task_id \in Queued(tasks)
                      /\ \A u \in Queued(tasks) : ~Ahead(tasks, u, wk'[w].task_id)
                /\ wk'[w].pc = "sleep" => Queued(tasks) = {}
                /\ Queued(tasks) = {} => wk'[w].pc # "mark_running"]_vars
    /\ []RunsInQueueOrder

\* Tasks t1, t2, t3 of priorities 5, 1, 5 were run in the order t1, t3, t2.
C10_Witness ==
    /\ Len(tasks) = 3 /\ Len(runs) = 3
    /\ tasks[1].priority = 5 /\ tasks[2].priority = 1 /\ tasks[3].priority = 5
    /\ tasks[1].created_at < tasks[2].created_at
    /\ tasks[2].created_at < tasks[3].created_at
    /\ runs[1].task_id = 1 /\ runs[2].task_id = 3 /\ runs[3].task_id = 2

(***************************************************************************)
(* The browser pool (Spec).                                                *)
(***************************************************************************)
\* A step in which get_browser_for_shop is called and returns.
Acquires(w) ==
    /\ wk[w].pc = "get_browser"
    /\ wk'[w].pc \in {"get_action", "except"}

\* The shop of the task a worker holds.
ShopOf(w) == tasks[wk[w].task_id].shop_id

\* start_browser calls made so far.
StartCalls(p) == p.calls["b1"] + p.calls["b2"]

\* C11 as stated: a pooled shop gets the identical handle with no
\* start_browser call; a task for a shop not yet in the pool triggers exactly
\* one start_browser call.
C11_AffinityAsStated ==
    [][\A w \in Workers :
          Acquires(w) =>
             IF ShopOf(w) \in DOMAIN wk[w].active_browsers
             THEN /\ wk'[w].browser = wk[w].active_browsers[ShopOf(w)]
                  /\ provider' = provider
             ELSE StartCalls(provider') = StartCalls(provider) + 1]_vars

\* C11, amended: a pooled shop gets the identical handle, and neither the
\* provider nor the pool nor any controller is touched; a task for a shop
\* not yet in the pool triggers exactly one start_browser call when the shop
\* is mapped to a browser id, and none when it is not.
C11_Affinity ==
    [][\A w \in Workers :
          Acquires(w) =>
             IF ShopOf(w) \in DOMAIN wk[w].active_browsers
             THEN /\ wk'[w].pc = "get_action"
                  /\ wk'[w].browser = wk[w].active_browsers[ShopOf(w)]
                  /\ provider' = provider
                  /\ wk'[w].active_browsers = wk[w].active_browsers
                  /\ wk'[w].controllers = wk[w].controllers
             ELSE IF ShopOf(w) \in DOMAIN shop_browser_map
             THEN /\ StartCalls(provider') = StartCalls(provider) + 1
                  /\ provider'.calls[shop_browser_map[ShopOf(w)]]
                        = provider.calls[shop_browser_map[ShopOf(w)]] + 1
             ELSE provider' = provider]_vars

\* The second task of shop_01 got the handle the first one had connected,
\* after a single start_browser call.
C11_Witness ==
    /\ wk["w1"].pc = "get_action"
    /\ Len(runs) = 2 /\ wk["w1"].run_id = 2
    /\ tasks[runs[1].task_id].shop_id = "shop_01"
    /\ tasks[runs[2].task_id].shop_id = "shop_01"
    /\ provider.calls["b1"] = 1
    /\ wk["w1"].active_browsers = [shop_01 |-> 1]
    /\ wk["w1"].browser = 1

\* C12: for a shop with no pooled handle get_browser_for_shop returns no
\* handle when the shop is not mapped, when start_browser reports failure and
\* when connect() fails; whenever it returns no handle the pool is unchanged,
\* and for an unmapped shop no start_browser call is made.
C12_AcquisitionFailures ==
    [][\A w \in Workers :
          Acquires(w) /\ ShopOf(w) \notin DOMAIN wk[w].active_browsers =>
             /\ ShopOf(w) \notin DOMAIN shop_browser_map =>
                   wk'[w].pc = "except" /\ provider' = provider
             /\ StartCalls(provider') > StartCalls(provider)
                   /\ provider'.started = provider.started =>
                   wk'[w].pc = "except"
             /\ Len(wk'[w].controllers) > Len(wk[w].controllers)
                   /\ ~wk'[w].controllers[Len(wk'[w].controllers)].connected =>
                   wk'[w].pc = "except"
             /\ wk'[w].pc = "except" =>
                   /\ wk'[w].browser = 0
                   /\ wk'[w].active_browsers = wk[w].active_browsers]_vars

\* connect() has failed for a started browser: no handle, the pool empty.
C12_Witness ==
    /\ wk["w1"].pc = "except"
    /\ wk["w1"].browser = 0
    /\ Len(wk["w1"].controllers) = 1
    /\ ~wk["w1"].controllers[1].connected
    /\ provider.started["b1"] + provider.started["b2"] = 1
    /\ wk["w1"].active_browsers = <<>>

(***************************************************************************)
(* A task's cycle (Spec).                                                  *)
(***************************************************************************)
Terminal == {"success", "failed"}
RunsOf(t) == { r \in DOMAIN runs : runs[r].task_id = t }
ArtifactsOf(r) == { i \in DOMAIN artifacts : artifacts[i].run_id = r }

\* A worker is in the except branch of execute_task because
\* get_browser_for_shop returned no handle.
SessionFailed(w) ==
    /\ wk[w].pc \in {"except", "except_status"}
    /\ wk[w].browser = 0

\* A worker is in the except branch because get_action_class raised.
UnknownAction(w) ==
    /\ wk[w].pc \in {"except", "except_status"}
    /\ wk[w].browser # 0
    /\ tasks[wk[w].task_id].action \notin ACTION_REGISTRY

\* The except branch of execute_task runs to its end: the run is completed
\* with the error and the task goes from running to failed.  (A step to
\* "cleanup" is a KeyboardInterrupt, which is left aside.)
HandlerCompletes(w) ==
    /\ wk[w].pc = "except" /\ wk'[w].pc \notin {"except", "cleanup"} =>
          /\ wk'[w].pc = "except_status"
          /\ runs'[wk[w].run_id].error = wk[w].exc
          /\ runs'[wk[w].run_id].completions = 1
    /\ wk[w].pc = "except_status" /\ wk'[w].pc \notin {"except_status", "cleanup"} =>
          /\ wk'[w].pc = "sleep"
          /\ tasks[wk[w].task_id].status = "running"
          /\ tasks'[wk[w].task_id].status = "failed"

\* C13: when get_browser_for_shop returns no handle for the task's shop, the
\* task goes running -> failed in that cycle and its run is completed with
\* the error; no action is built or executed, no capability call is made and
\* no artifact is recorded for the run.
C13_SessionFailureFailsTask ==
    [][\A w \in Workers :
          SessionFailed(w) =>
             /\ ex[w] = ExIdle /\ ex'[w] = ExIdle
             /\ ArtifactsOf(wk[w].run_id) = {}
             /\ HandlerCompletes(w)]_vars

\* C14: a task whose action name is not registered ends failed with its run
\* completed carrying the error, no action is executed for it, and the
\* worker goes on to its loop test and polls again.
C14_UnknownActionFailsTask ==
    [][\A w \in Workers :
          /\ UnknownAction(w) =>
                /\ ex[w] = ExIdle /\ ex'[w] = ExIdle
                /\ wk[w].exc = Some(<<"unknown action: ", tasks[wk[w].task_id].action>>)
                /\ HandlerCompletes(w)
          /\ wk[w].pc = "sleep" /\ wk'[w].pc \notin {"sleep", "cleanup"} =>
                wk'[w].pc = "loop" /\ wk'[w].running = wk[w].running]_vars

C16_RunImmutableOnceCompleted ==
    [][\A r \in DOMAIN runs :
          runs[r].completions >= 1 => runs'[r] = runs[r]]_vars

\* C17: the task of a cycle is written success exactly when execute returned
\* a result with ok=true in that cycle; an ok=false result, and a failure
\* before execute was called, leave it failed.
C17_SuccessIffOutcomeOk ==
    [][\A w \in Workers :
          wk[w].task_id # 0
             /\ tasks[wk[w].task_id].status = "running"
             /\ tasks'[wk[w].task_id].status \in Terminal =>
                (tasks'[wk[w].task_id].status = "success") = wk[w].result.ok]_vars

\* C18: every failed task carries an error that starts with a code of the
\* taxonomy followed by a non-empty message, and its run carries a non-empty
\* error and a result whose error_code is in the taxonomy.
C18_FailureCarriesKindAndMessage ==
    \A t \in DOMAIN tasks :
       tasks[t].status = "failed" =>
          /\ tasks[t].error # None
          /\ Len(tasks[t].error[1]) > 2
          /\ tasks[t].error[1][1] \in ErrorTaxonomy
          /\ \A r \in RunsOf(t) :
                /\ runs[r].error # None
                /\ runs[r].result # None
                /\ runs[r].result[1] # <<>>
                /\ runs[r].result[1].error_code # None
                /\ runs[r].result[1].error_code[1] \in ErrorTaxonomy

\* C19: whenever the run of a task that ended holds an ok=false result, the
\* task is failed and the result's error_message is, unaltered, the error of
\* the run and the error of the task.
C19_MessagePersistedVerbatim ==
    \A r \in DOMAIN runs :
       (/\ runs[r].result # None
        /\ runs[r].result[1] # <<>>
        /\ ~runs[r].result[1].ok
        /\ tasks[runs[r].task_id].status \in Terminal) =>
          /\ tasks[runs[r].task_id].status = "failed"
          /\ runs[r].error = runs[r].result[1].error_message
          /\ tasks[runs[r].task_id].error = runs[r].result[1].error_message

\* C20: an exception that leaves a cycle never ends run_loop.  A store call
\* that raises outside execute_task's try, or inside its except branch,
\* takes the worker to the handler of line 232; from there the worker goes
\* to the loop test with the running flag untouched, and from the loop test,
\* the flag being set, to the next poll.  (A step to "main_cleanup" is a
\* KeyboardInterrupt.)
C20_ExceptionNeverEndsLoop ==
    [][\A w \in Workers :
          /\ wk[w].pc \in {"poll", "mark_running", "create_run", "except", "except_status"}
                /\ faults' > faults =>
                wk'[w].pc = "loop_except" /\ wk'[w].running = wk[w].running
          /\ wk[w].pc = "loop_except" /\ wk'[w].pc # "loop_except" =>
                /\ wk'[w].pc \in {"loop", "main_cleanup"}
                /\ wk'[w].running = wk[w].running
          /\ wk[w].pc = "loop" /\ wk[w].running /\ wk'[w].pc # "loop" =>
                wk'[w].pc \in {"poll", "main_cleanup"}]_vars

\* The worker polls again after a cycle that an exception left: the task of
\* that cycle is still running and the fault has happened.
C20_Witness ==
    /\ wk["w1"].pc = "poll" /\ wk["w1"].running
    /\ faults = 1
    /\ \E t \in DOMAIN tasks : tasks[t].status = "running"

(***************************************************************************)
(* Cycles of a single worker                                               *)
(***************************************************************************)
RunningTasks == { t \in DOMAIN tasks : tasks[t].status = "running" }

\* The worker is about to call get_next_task.
AtPoll(w) == wk[w].pc = "poll"

\* C23: with the single worker w1, at every moment at most one task has
\* status running, and when get_next_task is about to be called the cycle
\* before it is over: no execute call is in progress and no task is running.
C23_TasksNeverOverlap ==
    /\ Cardinality(RunningTasks) <= 1
    /\ AtPoll("w1") => ex["w1"].pc = "idle" /\ RunningTasks = {}

\* The store writes of a step, read off the tables before and after it.
WritesRunning(t) == tasks[t].status # "running" /\ tasks'[t].status = "running"
WritesTerminal(t) == tasks[t].status \notin Terminal /\ tasks'[t].status \in Terminal
CreatesRun == Len(runs') = Len(runs) + 1
CompletesRun(r) == runs'[r].completions > runs[r].completions
Completed(r) == runs[r].completions >= 1

\* C29: the store writes for a claimed task come in the order status running,
\* Run created, Run completed, terminal status: the running write is made
\* while the task has no Run, the Run is created for a task that shows
\* running, it is completed while the task still shows running, and the
\* terminal status is written when the Run has been completed.  Hence a Run
\* exists only for a task marked running before, and a task that shows
\* success or failed has a Run, completed already.
C29_WriteOrder ==
    /\ [][/\ \A t \in DOMAIN tasks :
                /\ WritesRunning(t) => RunsOf(t) = {}
                /\ WritesTerminal(t) =>
                      /\ tasks[t].status = "running"
                      /\ RunsOf(t) # {}
                      /\ \A r \in RunsOf(t) : Completed(r)
          /\ CreatesRun =>
                /\ tasks[runs'[Len(runs')].task_id].status = "running"
                /\ runs'[Len(runs')].completions = 0
          /\ \A r \in DOMAIN runs :
                CompletesRun(r) => tasks[runs[r].task_id].status = "running"]_vars
    /\ [](\A r \in DOMAIN runs : tasks[runs[r].task_id].status # "queued")
    /\ [](\A t \in DOMAIN tasks :
             tasks[t].status \in Terminal =>
                RunsOf(t) # {} /\ \A r \in RunsOf(t) : Completed(r))

\* A cycle has made its four writes: a task shows a terminal status and its
\* Run is completed; another has a Run and is still running.
C29_Witness ==
    /\ \E t \in DOMAIN tasks :
          tasks[t].status \in Terminal /\ \E r \in RunsOf(t) : Completed(r)
    /\ \E t \in DOMAIN tasks :
          tasks[t].status = "running" /\ \E r \in RunsOf(t) : ~Completed(r)

(***************************************************************************)
(* One worker process started on a queue the producer has filled, with     *)
(* stop() called at any point of its loop.  The backlog holds up to        *)
(* MaxBacklog tasks, in the order they were inserted.                      *)
(***************************************************************************)
SnapshotTask ==
    [shop_id |-> "shop_01", action |-> "fetch_product_snapshot", dry_run |-> FALSE,
     payload |-> [keyword |-> "", limit |-> 3]]

BacklogMenu == TaskMenu \cup {SnapshotTask}

BacklogsOf(menu) ==
    UNION { { [i \in 1..n |-> NewTask(q[i].shop_id, q[i].action, q[i].payload, 1,
                                      q[i].dry_run, i)]
              : q \in [1..n -> menu] }
            : n \in 0..MaxBacklog }

Backlogs == BacklogsOf(BacklogMenu)

\* The steps of a cycle, from the get_next_task call to the last store write.
InCycle ==
    {"poll", "mark_running", "create_run", "get_browser", "get_action", "execute",
     "complete_run", "update_status", "except", "except_status"}
\* Variant: the call cuts the cycle short.
StopInFlight_abort(w) ==
    /\ wk[w].pc \in InCycle
    /\ wk[w].running
    /\ wk' = [wk EXCEPT ![w] = Unwound([wk[w] EXCEPT !.running = FALSE], "cleanup")]
    /\ ex' = [ex EXCEPT ![w] = ExIdle]
    /\ UNCHANGED <<tasks, runs, artifacts, provider, now, utc, faults>>

\* stop(), called from another thread or a signal handler while a cycle is in
\* progress: the flag is written, nothing else.
StopInFlight(w) ==
    /\ wk[w].pc \in InCycle
    /\ wk[w].running
    /\ wk' = [wk EXCEPT ![w].running = FALSE]
    /\ UNCHANGED <<tasks, runs, artifacts, provider, ex, now, utc, faults>>

InitBacklog ==
    /\ tasks \in Backlogs /\ utc = Len(tasks)
    /\ runs = <<>> /\ artifacts = <<>>
    /\ provider = ProviderStart
    /\ wk = [w \in Workers |-> IF w = "w1" THEN WkStart ELSE WkOff]
    /\ ex = [w \in Workers |-> ExIdle]
    /\ now = 0 /\ faults = 0

NextBacklog == \E w \in Workers : WorkerStep(w) \/ StopInFlight(w) \/ Execute(w)

SpecBacklog == InitBacklog /\ [][NextBacklog]_vars

\* The worker's own steps: the interpreter runs the loop on, each call it
\* makes returns or raises.  stop() and KeyboardInterrupt come from outside
\* and need not come at all.
Cycle(w) ==
    \/ Loop(w) \/ Poll(w) \/ MarkRunning(w) \/ CreateRun(w) \/ GetBrowser(w)
    \/ GetAction(w) \/ ExecuteDone(w) \/ CompleteRun(w) \/ UpdateStatus(w)
    \/ Except(w) \/ ExceptStatus(w) \/ Sleep(w)

Progress(w) == Cycle(w) \/ Cleanup(w) \/ Execute(w)

FairBacklog == SpecBacklog /\ \A w \in Workers : WF_vars(Progress(w))

\* stop() has been called on a worker that is still in run_loop.
StopRequested(w) == wk[w].pc \notin {"off", "exited"} /\ ~wk[w].running

\* run_loop is over and cleanup has run: disconnect was called on every
\* controller in the pool and the client was told to exit.
TornDown(w) ==
    /\ wk[w].pc \in {"main_cleanup", "exited"}
    /\ \A h \in Pooled(w) : wk[w].controllers[h].disconnects >= 1
    /\ provider.exits >= 1

\* C21: after stop() is requested, and provided the calls of the cycle in
\* progress return, run_loop eventually exits and cleanup runs: disconnect
\* is called on every session in the pool and the provisioning client is
\* told to exit.
C21_StopLeadsToTeardown ==
    \A w \in Workers : StopRequested(w) ~> TornDown(w)

\* Torn down after a stop that came during a cycle, with a session in the
\* pool.
C21_Witness ==
    /\ ~wk["w1"].running /\ TornDown("w1")
    /\ Pooled("w1") # {}
    /\ \E t \in DOMAIN tasks : tasks[t].status \in Terminal

\* A step in which worker w makes its get_next_task call.
CallsGetNextTask(w) ==
    wk[w].pc = "poll" /\ wk'[w].pc \in {"mark_running", "sleep", "loop_except"}

\* A step that is a call of stop() on worker w.
StopCall(w) == wk[w].running /\ ~wk'[w].running

\* The call of stop() writes the flag and nothing else: the cycle in progress
\* is where it was.
StopWritesFlagOnly ==
    \A w \in Workers :
       StopCall(w) =>
          /\ wk' = [wk EXCEPT ![w].running = FALSE]
          /\ UNCHANGED <<tasks, runs, artifacts, provider, ex, now, utc, faults>>

\* C22 as stated: once stop is requested, the task in flight is not
\* interrupted, get_next_task is not called again and no task is moved to
\* running.
C22_NoClaimAfterStop ==
    [][/\ StopWritesFlagOnly
       /\ \A w \in Workers :
             StopRequested(w) =>
                /\ ~CallsGetNextTask(w)
                /\ \A t \in DOMAIN tasks : ~WritesRunning(t)]_vars

\* C22, amended: the call of stop() changes nothing but the flag, so the
\* cycle in progress (one whose get_next_task call or running write is still
\* to come included) goes on; the flag is taken at the next loop test, after
\* which the worker begins no cycle: outside a cycle with the flag cleared,
\* it makes no get_next_task call, moves no task to running and only goes on
\* to the loop test and to cleanup.
C22_StopTakenAtLoopTest ==
    [][/\ StopWritesFlagOnly
       /\ \A w \in Workers :
             StopRequested(w) /\ wk[w].pc \notin InCycle =>
                /\ wk'[w].pc \in {"sleep", "loop_except", "loop", "cleanup",
                                  "main_cleanup", "exited"}
                /\ ~CallsGetNextTask(w)
                /\ tasks' = tasks /\ runs' = runs]_vars

\* stop() came while task 1 was being executed; its result is about to be
\* written, and task 2 is still queued.
C22_Witness ==
    /\ ~wk["w1"].running /\ wk["w1"].pc = "complete_run"
    /\ wk["w1"].task_id = 1
    /\ Len(tasks) = 2 /\ tasks[2].status = "queued"

(***************************************************************************)
(* The product snapshot, dispatched by the worker                          *)
(***************************************************************************)
\* The rows of a page that count for a limit: the rows with a product name
\* among the first `limit` rows.
MatchingRows(rows, limit) == { i \in 1..Len(rows) : i <= limit /\ rows[i] }

\* _extract_products returns one product per matching row, in page order,
\* each with the row's position as its index.
RowsCounted ==
    \A rows \in PageRows, limit \in {1, 3, 10} :
       LET products == products_of(rows, limit, 1)
       IN  /\ Len(products) = Cardinality(MatchingRows(rows, limit))
           /\ \A k \in DOMAIN products : products[k] + 1 \in MatchingRows(rows, limit)
           /\ \A j, k \in DOMAIN products : j < k => products[j] < products[k]

\* A task whose action is `name` and whose worker holds a session is
\* dispatched to the snapshot action; the result execute returns for it, when
\* ok, carries count = the number of products, at least one and at most
\* `limit`.
SnapshotDispatched(name) ==
    \A w \in Workers :
       wk[w].pc = "get_action" /\ tasks[wk[w].task_id].action = name
       /\ wk'[w].pc \notin {"get_action", "cleanup"}
       => wk'[w].pc = "execute" /\ ex'[w].action = "fetch_product_snapshot"

SnapshotCounted(name) ==
    \A w \in Workers :
       wk[w].pc = "complete_run" /\ tasks[wk[w].task_id].action = name
       /\ wk[w].result.ok
       => LET data == wk[w].result.data[1]
              limit == Get(tasks[wk[w].task_id].payload, "limit", 10)
          IN  /\ data.count = Len(data.products)
              /\ data.count \in 1..limit
              /\ \A k \in DOMAIN data.products : data.products[k] \in 0..(limit - 1)

\* C25 as stated: a non-dry-run task named "fetch_snapshot" with payload
\* {keyword: "", limit: 3} is dispatched to the snapshot action, whose
\* outcome has data.count = the number of matching rows among the first
\* `limit` rows (3 of 3).
C25_FetchSnapshotAsStated ==
    /\ [][SnapshotDispatched("fetch_snapshot")]_vars
    /\ [](RowsCounted /\ SnapshotCounted("fetch_snapshot"))

\* C25, amended: the same for a task named "fetch_product_snapshot", the
\* name the action is registered under.
C25_SnapshotCountsMatchingRows ==
    /\ [][SnapshotDispatched("fetch_product_snapshot")]_vars
    /\ [](RowsCounted /\ SnapshotCounted("fetch_product_snapshot"))

\* The worker holds the outcome of the scenario: ok, count 3, 3 products.
C25_Witness ==
    /\ wk["w1"].pc = "complete_run"
    /\ tasks[wk["w1"].task_id].action = "fetch_product_snapshot"
    /\ tasks[wk["w1"].task_id].payload = [keyword |-> "", limit |-> 3]
    /\ ~tasks[wk["w1"].task_id].dry_run
    /\ wk["w1"].result.ok
    /\ wk["w1"].result.data[1].count = 3
    /\ wk["w1"].result.data[1].products = <<0, 1, 2>>

(***************************************************************************)
(* Missing configuration                                                   *)
(***************************************************************************)
\* The section of the locator table whose entry URL the action opens.
EntrySection(action) ==
    IF action = "fetch_ads_summary" THEN "ads_center" ELSE "product_list"

\* The core logic of the call gets as far as reading its entry URL.
ReadsEntryUrl(w) ==
    /\ ex[w].action \in ACTION_REGISTRY
    /\ RequiredKeys(ex[w].action) \subseteq DOMAIN ex[w].payload
    /\ ~(ex[w].action = "update_title" /\ ex[w].context.dry_run)

\* C26: when the entry URL an action requires is absent from the locator
\* table of the task's site, the core logic does not raise and returns
\* ok=false with error_code CONFIG_ERROR.
C26_MissingKeyIsConfigError ==
    \A w \in Workers :
       (/\ ex[w].core # ""
        /\ ReadsEntryUrl(w)
        /\ entry_url(get_locators(ex[w].context.site),
                     EntrySection(ex[w].action)) = None) =>
          /\ ex[w].core = "failed"
          /\ ex[w].pc \in {"after", "returned"} =>
                /\ ~ex[w].result.ok
                /\ ex[w].result.error_code = Some("CONFIG_ERROR")

(***************************************************************************)
(* The save step of update_title                                           *)
(***************************************************************************)
\* The position in the calls of the click on the save button: the click that
\* follows the scroll script of _click_save, itself after the title was
\* typed and its change event fired (0 when there is none).
SaveClick(calls) ==
    LET at == { i \in DOMAIN calls :
                  /\ i >= 4
                  /\ calls[i] = "click" /\ calls[i - 1] = "script"
                  /\ calls[i - 2] = "script" /\ calls[i - 3] = "element_send_keys" }
    IN  IF at = {} THEN 0 ELSE CHOOSE i \in at : TRUE

\* After the click _click_save looked for the success toast and found it:
\* one check_element_exists call, and nothing after it.
SaveConfirmed(calls) ==
    /\ SaveClick(calls) # 0
    /\ Len(calls) = SaveClick(calls) + 1
    /\ calls[Len(calls)] = "exists"

\* C27: a non-dry-run update_title call whose core logic returned has
\* ok=true only if the save step saw the success confirmation; when the save
\* button was clicked and no confirmation was seen, the outcome is ok=false
\* with error_code SAVE_ERROR.
C27_OkOnlyIfSaveConfirmed ==
    \A w \in Workers :
       (/\ ex[w].pc = "after"
        /\ ex[w].action = "update_title"
        /\ ~ex[w].context.dry_run) =>
          /\ ex[w].result.ok => SaveConfirmed(ex[w].calls)
          /\ SaveClick(ex[w].calls) # 0 /\ ~SaveConfirmed(ex[w].calls) =>
                /\ ~ex[w].result.ok
                /\ ex[w].result.error_code = Some("SAVE_ERROR")

(***************************************************************************)
(* execute without a store                                                 *)
(***************************************************************************)
\* C28: an execute call made without a store takes no screenshot and records
\* no artifact, whether the core logic returns ok=true, returns ok=false or
\* raises; it does not raise, and the outcome it returns has no evidence and
\* has timing_ms set.
C28_NoStoreNoCapture ==
    \A w \in Workers :
       (ex[w].pc # "idle" /\ ~ex[w].store) =>
          /\ \A i \in DOMAIN ex[w].calls : ex[w].calls[i] # "screenshot"
          /\ ex[w].shot_times = <<>>
          /\ ArtifactsOf(ex[w].context.run_id) = {}
          /\ ex[w].pc # "raised"
          /\ ex[w].pc = "returned" =>
                /\ ex[w].result.evidence = None
                /\ ex[w].result.timing_ms # None

\* Without a store the core logic raised, and execute returned its outcome.
C28_Witness ==
    /\ ~ex["w1"].store /\ ex["w1"].pc = "returned"
    /\ ex["w1"].core = "raised"
    /\ ex["w1"].result.error_code = Some("EXCEPTION")
    /\ ex["w1"].result.timing_ms # None

(***************************************************************************)
(* The before screenshot                                                   *)
(***************************************************************************)
\* The core logic of the call is about to be invoked, or has been.
CoreReached(w) ==
    \/ ex[w].pc \in {"do_action", "after", "except", "returned"}
    \/ ex[w].pc = "raised" /\ ex[w].core # ""

\* C30: with a store, the before screenshot has been taken and its artifact
\* record inserted when the core logic is invoked: from then on, whatever the
\* core logic returns or raises, the run has its before artifact, the one
\* execute holds the path of.
C30_BeforeArtifactPrecedesCore ==
    \A w \in Workers :
       (ex[w].store /\ CoreReached(w)) =>
          /\ ex[w].before = Some(<<ex[w].context.run_id, "before">>)
          /\ ex[w].calls # <<>> /\ ex[w].calls[1] = "screenshot"
          /\ ArtifactCount(ex[w].context.run_id, "before") = 1
          /\ \E i \in DOMAIN artifacts :
                artifacts[i] = [run_id |-> ex[w].context.run_id, type |-> "before",
                                url |-> <<"local://", ex[w].before[1]>>]

\* The core logic raised after the before artifact was recorded, and execute
\* returned the outcome of its handler.
C30_Witness ==
    /\ ex["w1"].store /\ ex["w1"].pc = "returned" /\ ex["w1"].core = "raised"
    /\ ex["w1"].result.error_code = Some("EXCEPTION")
    /\ ArtifactCount(ex["w1"].context.run_id, "before") = 1

(***************************************************************************)
(* Two worker processes polling the same Task Store, started on a queue    *)
(* the producer has filled and left running: no stop(), no interrupt.      *)
(***************************************************************************)
\* The tasks the two workers are started on: of the producer's menu, the
\* dry run and the task of the shop that has no browser.
SharedMenu ==
    { t \in TaskMenu : t.dry_run \/ t.shop_id \notin DOMAIN shop_browser_map }

SharedBacklogs == BacklogsOf(SharedMenu)

InitTwo ==
    /\ tasks \in SharedBacklogs /\ utc = Len(tasks)
    /\ runs = <<>> /\ artifacts = <<>>
    /\ provider = ProviderStart
    /\ wk = [w \in Workers |-> WkStart]
    /\ ex = [w \in Workers |-> ExIdle]
    /\ now = 0 /\ faults = 0

NextTwo == \E w \in Workers : Cycle(w) \/ Execute(w)

SpecTwo == InitTwo /\ [][NextTwo]_vars

\* A step in which worker w's update_task_status(RUNNING) call returns.
MarkReturns(w) ==
    /\ wk[w].pc = "mark_running" /\ wk'[w].pc # "mark_running"
    /\ faults' = faults

\* C24: claiming a task is a read followed by an unconditional write, with no
\* compare-and-swap: get_next_task writes nothing, and the RUNNING write of a
\* worker that has read a task goes through whatever the row's status has
\* become, after which the worker goes on to create a Run.  With two workers
\* there is therefore an interleaving in which both read the same queued
\* task before either marks it running, and the task gets two Runs.
C24_ClaimIsReadThenWrite ==
    [][\A w \in Workers :
          /\ CallsGetNextTask(w) => tasks' = tasks
          /\ MarkReturns(w) =>
                /\ wk'[w].pc = "create_run"
                /\ tasks'[wk[w].task_id].status = "running"
                /\ wk'[w].task_id = wk[w].task_id]_vars

\* One task has two Runs, one by each worker.
C24_Witness ==
    \E t \in DOMAIN tasks :
       \E r1, r2 \in RunsOf(t) :
          runs[r1].worker_id = "w1" /\ runs[r2].worker_id = "w2"

(***************************************************************************)
(* What execute makes of the outcome of the core logic                     *)
(***************************************************************************)
\* A step in which execute goes on from the outcome the core logic returned.
AfterCore(w) == ex[w].pc = "after" /\ ex'[w].pc # "after"

\* C31: when the core logic returned an outcome with ok=false, execute takes
\* no further screenshot, records no further artifact and returns that
\* outcome: ok, action, data, error_code, error_message and evidence are the
\* ones the core logic returned, and timing_ms is set.
C31_FailedOutcomeReturnedAsIs ==
    [][\A w \in Workers :
          AfterCore(w) /\ ~ex[w].result.ok =>
             /\ ex'[w].pc = "returned"
             /\ ex'[w].result.timing_ms # None
             /\ ex'[w].result = [ex[w].result EXCEPT !.timing_ms = ex'[w].result.timing_ms]
             /\ ex'[w].calls = ex[w].calls
             /\ ex'[w].shot_times = ex[w].shot_times
             /\ artifacts' = artifacts]_vars

\* With a store, an ok=false outcome has been returned: the before artifact
\* is the only one.
C31_Witness ==
    /\ ex["w1"].store /\ ex["w1"].pc = "returned" /\ ex["w1"].core = "failed"
    /\ ex["w1"].result.error_code = Some("NAVIGATION_ERROR")
    /\ ex["w1"].result.timing_ms # None
    /\ Len(artifacts) = 1

\* C32: when the core logic raised, execute returns an outcome with ok=false,
\* error_code EXCEPTION and the exception's text as error_message; with a
\* store one error artifact has been recorded and evidence holds the error
\* screenshot and nothing else, without a store evidence is absent.
C32_RaiseBecomesExceptionOutcome ==
    \A w \in Workers :
       (Ended(w) /\ ex[w].core = "raised") =>
          /\ ex[w].pc = "returned"
          /\ ~ex[w].result.ok
          /\ ex[w].result.error_code = Some("EXCEPTION")
          /\ ex[w].result.error_message = Some(DriverError)
          /\ ex[w].result.data = None
          /\ ex[w].store =>
                /\ ArtifactCount(ex[w].context.run_id, "error") = 1
                /\ ex[w].result.evidence =
                      Some([error_png |-> <<ex[w].context.run_id, "error">>])
          /\ ~ex[w].store => ex[w].result.evidence = None

\* C36: when the core logic returned ok=true, execute returns an outcome with
\* ok=true and the same data: the after screenshot and its artifact record
\* never turn the success into an ok=false outcome (or into an exception).
C36_SuccessSurvivesEvidence ==
    /\ [](\A w \in Workers :
             (Ended(w) /\ ex[w].core = "ok") =>
                ex[w].pc = "returned" /\ ex[w].result.ok)
    /\ [][\A w \in Workers :
             AfterCore(w) /\ ex[w].result.ok =>
                /\ ex'[w].pc = "returned"
                /\ ex'[w].result.ok
                /\ ex'[w].result.data = ex[w].result.data]_vars

(***************************************************************************)
(* The steps of update_title                                               *)
(***************************************************************************)
\* The capability calls of the core logic: the calls of execute without the
\* before screenshot.
CoreCalls(w) == IF ex[w].store THEN Tail(ex[w].calls) ELSE ex[w].calls

\* How the core logic ended: "ok", or the error kind of its outcome.
OutcomeKind(result) == IF result.ok THEN "ok" ELSE result.error_code[1]

\* calls are the calls of the five steps taken in order, each step made only
\* when the one before reported success, and kind is the error kind of the
\* first step that reported failure ("ok" when none did).
StepsInOrder(calls, kind, locators) ==
    \E n \in navigate(entry_url(locators, "product_list")) :
       IF ~n THEN calls = <<"navigate">> /\ kind = "NAVIGATION_ERROR"
       ELSE \E s \in { o \in UT_search_product(locators) : o.exc = None } :
          LET c2 == <<"navigate">> \o s.calls
          IN  IF ~s.ret THEN calls = c2 /\ kind = "SEARCH_ERROR"
              ELSE \E e \in UT_click_edit_button(locators) :
                 LET c3 == c2 \o e.calls
                 IN  IF e.ret = None THEN calls = c3 /\ kind = "PRODUCT_NOT_FOUND"
                     ELSE \E f \in { o \in UT_update_title_field(locators) : o.exc = None } :
                        LET c4 == c3 \o f.calls
                        IN  IF ~f.ret THEN calls = c4 /\ kind = "UPDATE_ERROR"
                            ELSE \E v \in { o \in UT_click_save(locators) : o.exc = None } :
                               /\ calls = c4 \o v.calls
                               /\ kind = IF v.ret.success THEN "ok" ELSE "SAVE_ERROR"

\* The calls that only the title field step and the save step make.
EditPageCalls == {"scroll", "script", "element_send_keys", "exists"}

\* C39: a non-dry-run update_title whose core logic returned has taken its
\* steps in the order navigate, search, click edit, fill title, click save,
\* and has stopped at the first step that reported failure, with that step's
\* error kind and with no call of a later step: after NAVIGATION_ERROR
\* nothing but the navigation was called, after SEARCH_ERROR no text was read
\* and nothing clicked for the edit, and before the title field step reported
\* success no script was run and no save was clicked.
C39_StepsInOrder ==
    \A w \in Workers :
       (/\ ex[w].pc = "after"
        /\ ex[w].action = "update_title"
        /\ ~ex[w].context.dry_run
        /\ RequiredKeys("update_title") \subseteq DOMAIN ex[w].payload) =>
          LET calls == CoreCalls(w)
              kind == OutcomeKind(ex[w].result)
          IN  /\ StepsInOrder(calls, kind, get_locators(ex[w].context.site))
              /\ kind \in {"ok", "NAVIGATION_ERROR", "SEARCH_ERROR", "PRODUCT_NOT_FOUND",
                           "UPDATE_ERROR", "SAVE_ERROR"}
              /\ kind = "NAVIGATION_ERROR" => calls = <<"navigate">>
              /\ kind = "SEARCH_ERROR" =>
                    \A i \in DOMAIN calls : calls[i] \in {"navigate", "send_keys"}
              /\ kind \in {"SEARCH_ERROR", "PRODUCT_NOT_FOUND", "UPDATE_ERROR"} =>
                    \A i \in DOMAIN calls : calls[i] \notin EditPageCalls
              /\ SaveClick(calls) # 0 => kind \in {"ok", "SAVE_ERROR"}

\* The title field step reported failure: UPDATE_ERROR, and the last call is
\* the wait for the title input.
C39_Witness ==
    /\ ex["w1"].pc = "returned" /\ ex["w1"].action = "update_title"
    /\ ~ex["w1"].context.dry_run
    /\ ex["w1"].result.error_code = Some("UPDATE_ERROR")
    /\ ex["w1"].calls[Len(ex["w1"].calls)] = "wait_for_element"

(***************************************************************************)
(* The pool over the life of a worker                                      *)
(***************************************************************************)
\* C33: the pool never evicts and never re-checks.  No step of a worker
\* removes or replaces an entry of its pool, whatever happened to the action
\* or the task, teardown included; and an acquisition for a pooled shop
\* returns the pooled handle with no start_browser call and no connect: the
\* provider and the controllers are left as they were.
C33_PoolNeverEvicts ==
    [][\A w \in Workers :
          /\ \A s \in DOMAIN wk[w].active_browsers :
                /\ s \in DOMAIN wk'[w].active_browsers
                /\ wk'[w].active_browsers[s] = wk[w].active_browsers[s]
          /\ Acquires(w) /\ ShopOf(w) \in DOMAIN wk[w].active_browsers =>
                /\ wk'[w].pc = "get_action"
                /\ wk'[w].browser = wk[w].active_browsers[ShopOf(w)]
                /\ provider' = provider
                /\ wk'[w].controllers = wk[w].controllers]_vars

\* The first task of shop_02 failed in its action; the second one holds the
\* same handle, after a single start_browser call.
C33_Witness ==
    /\ wk["w1"].pc = "get_action"
    /\ Len(runs) = 2 /\ wk["w1"].run_id = 2
    /\ tasks[runs[1].task_id].shop_id = "shop_02"
    /\ tasks[runs[1].task_id].status = "failed"
    /\ runs[1].result # None /\ runs[1].result[1] # <<>>
    /\ tasks[runs[2].task_id].shop_id = "shop_02"
    /\ provider.calls["b2"] = 1
    /\ wk["w1"].browser = wk["w1"].active_browsers["shop_02"]

\* C38: over any sequence of tasks the provider starts each shop's browser
\* successfully at most once (each mapped shop has a browser of its own, so
\* the count per browser is the count per shop): a session that was started
\* is in the pool and is reused.
C38_OneStartPerShop ==
    \A shop_id \in DOMAIN shop_browser_map :
        provider.started[shop_browser_map[shop_id]] <= 1

\* C35: a store call that raises in the middle of a cycle, or an interrupt
\* during it, does not leave the claimed task in running: whenever the worker
\* w1 is outside a cycle (asleep, in the handler of run_loop, at the loop test
\* or in teardown) no task has status running; a task is success, failed, or
\* queued if it was never marked.
C35_CycleLeavesNoTaskRunning ==
    wk["w1"].pc \notin InCycle => RunningTasks = {}

\* The step of worker w that takes it out of the cycle of a task it claimed.
EndsCycle(w) ==
    wk[w].task_id # 0 /\ wk[w].pc \in InCycle /\ wk'[w].pc \notin InCycle

\* The cycle is cut by a store call that raises, or by an interrupt.
CycleCut(w) ==
    \/ wk'[w].pc = "loop_except" /\ wk'[w].exc = Some(StoreError)
    \/ wk'[w].pc = "cleanup"

\* C34: when no store call raises and the cycle is not interrupted, the cycle
\* of a claimed task ends at the sleep of run_loop with the task in success
\* or failed, whether the action returned or raised and whether or not a
\* browser was obtained: no such cycle ends with its task queued or running.
C34_CycleEndsTerminal ==
    [][\A w \in Workers :
          EndsCycle(w) /\ ~CycleCut(w) =>
             /\ wk'[w].pc = "sleep"
             /\ tasks'[wk[w].task_id].status \in Terminal]_vars

\* A cycle that obtained a browser and whose action did not succeed is over,
\* with its task failed and its run completed.
C34_Witness ==
    /\ wk["w1"].pc = "sleep" /\ wk["w1"].task_id # 0
    /\ wk["w1"].browser # 0
    /\ tasks[wk["w1"].task_id].status = "failed"
    /\ Completed(wk["w1"].run_id)

(***************************************************************************)
(* Teardown                                                                *)
(***************************************************************************)
\* A call of cleanup() by worker w returns.
CleanupReturns(w) ==
    wk[w].pc \in {"cleanup", "main_cleanup"} /\ wk'[w].pc # wk[w].pc

\* C40: every call of cleanup(), the one at the end of run_loop and the
\* second one in the finally of main, calls disconnect on every pooled
\* controller, whether or not the disconnect of some controller raises, then
\* asks the provider client to exit, and returns normally to its caller; the
\* pool itself is left as it was.
C40_TeardownRobust ==
    [][\A w \in Workers :
          CleanupReturns(w) =>
             /\ wk'[w].pc = IF wk[w].pc = "cleanup" THEN "main_cleanup" ELSE "exited"
             /\ \A h \in Pooled(w) :
                   wk'[w].controllers[h].disconnects
                      = wk[w].controllers[h].disconnects + 1
             /\ provider'.exits = provider.exits + 1
             /\ wk'[w].active_browsers = wk[w].active_browsers]_vars

\* The first cleanup() has returned with two sessions in the pool: the
\* disconnect of one of them raised and left it connected, the other one is
\* disconnected, and the client was asked to exit.
C40_Witness ==
    /\ wk["w1"].pc = "main_cleanup"
    /\ Cardinality(Pooled("w1")) = 2
    /\ \E h \in Pooled("w1") :
          wk["w1"].controllers[h].connected /\ wk["w1"].controllers[h].disconnects = 1
    /\ \E h \in Pooled("w1") :
          ~wk["w1"].controllers[h].connected /\ wk["w1"].controllers[h].disconnects = 1
    /\ provider.exits = 1

(***************************************************************************)
(* A worker that is run again                                              *)
(***************************************************************************)
\* main() calls run_loop once; the Worker object itself allows more:
\* run_loop sets _running to True on entry (line 215), and cleanup leaves
\* active_browsers as it is.  Here the caller of run_loop, once run_loop has
\* returned with its cleanup() done, may call it again on the same Worker up
\* to MaxReruns times before it leaves through its own cleanup().
MaxReruns == 1

RunLoopAgain(w) ==
    /\ wk[w].pc = "main_cleanup"
    /\ provider.exits \in 1..MaxReruns
    /\ wk' = [wk EXCEPT ![w].pc = "loop", ![w].running = TRUE]
    /\ UNCHANGED <<tasks, runs, artifacts, provider, ex, now, utc, faults>>

NextReuse ==
    \E w \in Workers : WorkerStep(w) \/ StopInFlight(w) \/ Execute(w) \/ RunLoopAgain(w)

SpecReuse == InitBacklog /\ [][NextReuse]_vars

\* C37: every handle that get_browser_for_shop returns is connected: its
\* connect() succeeded and disconnect() has not closed it since, also when
\* the acquisition comes after a cleanup() of the same worker.
C37_ReturnedHandleConnected ==
    [][\A w \in Workers :
          Acquires(w) /\ wk'[w].browser # 0 =>
             wk'[w].controllers[wk'[w].browser].connected]_vars

============================================================================
